---- MODULE Spec2Model ----
(***************************************************************************)
(* Model of the CAPEX calculation and scenario-diff core:                  *)
(*   budget_model.py  item totals, scenario summary, category aggregation  *)
(*   ai_analyst.py    item matcher, category merge-by-name, DiffPack       *)
(* Python floats are modelled as exact rationals [n, d] (d > 0, lowest     *)
(* terms); a division by zero yields ZeroDivisionError, which every later  *)
(* arithmetic step propagates.  Python dicts are modelled as sequences of  *)
(* [k, v] entries in insertion order.  Strings that the code transforms    *)
(* (item names) are sequences of one-character strings.                    *)
(***************************************************************************)
EXTENDS Integers, Sequences, FiniteSets, TLC

\* ------------------------------------------------------------------ bounds
\* items of scenario A plus items of scenario B, matcher inputs
MaxItems == 3
\* items per scenario, category/diff inputs
MaxCatItems == 2
\* categories per scenario, category/diff inputs
MaxCats == 2
\* item pairs fed to the top-items ranking
MaxPairs == 32
\* length of the price pattern the ranking inputs repeat
PatternLen == 3
\* quantity of a line item, item-totals inputs
MaxQty == 3
\* items of a scenario fed to the markup-base resolvers
MaxAiuItems == 2

\* ------------------------------------------------------- Python primitives
\* None where an Item is expected (Optional[Item])
None == [none |-> TRUE]
\* None where a str is expected (Item.item_code: Optional[str] = None)
NoneStr == "<None>"
\* truthiness of an Optional[str]: None and "" are falsy
Truthy(s) == s # NoneStr /\ s # ""
\* `s or ""`
OrEmpty(s) == IF Truthy(s) THEN s ELSE ""

ZeroDivisionError == [error |-> "ZeroDivisionError"]
IsErr(x) == x = ZeroDivisionError

Abs(i) == IF i < 0 THEN -i ELSE i
RECURSIVE GCD(_, _)
GCD(a, b) == IF b = 0 THEN a ELSE GCD(b, a % b)
\* the float n/d
Frac(n, d) ==
    LET g == GCD(Abs(n), Abs(d))
        s == IF d < 0 THEN -1 ELSE 1
    IN [n |-> s * (n \div g), d |-> s * (d \div g)]
\* the float of an integer literal
R(i) == [n |-> i, d |-> 1]
\* the arithmetic cancels common factors before it multiplies
RAdd(x, y) == IF IsErr(x) \/ IsErr(y) THEN ZeroDivisionError
              ELSE LET g == GCD(x.d, y.d)
                   IN Frac(x.n * (y.d \div g) + y.n * (x.d \div g), (x.d \div g) * y.d)
RSub(x, y) == IF IsErr(x) \/ IsErr(y) THEN ZeroDivisionError
              ELSE LET g == GCD(x.d, y.d)
                   IN Frac(x.n * (y.d \div g) - y.n * (x.d \div g), (x.d \div g) * y.d)
RMul(x, y) == IF IsErr(x) \/ IsErr(y) THEN ZeroDivisionError
              ELSE LET g1 == GCD(Abs(x.n), y.d)
                       g2 == GCD(Abs(y.n), x.d)
                   IN Frac((x.n \div g1) * (y.n \div g2), (x.d \div g2) * (y.d \div g1))
RDiv(x, y) == IF IsErr(x) \/ IsErr(y) THEN ZeroDivisionError
              ELSE IF y.n = 0 THEN ZeroDivisionError
              ELSE RMul(x, Frac(y.d, y.n))
RNeg(x) == IF IsErr(x) THEN ZeroDivisionError ELSE [n |-> -x.n, d |-> x.d]
RAbs(x) == IF IsErr(x) THEN ZeroDivisionError ELSE [n |-> Abs(x.n), d |-> x.d]
RLess(x, y) ==
    /\ ~IsErr(x) /\ ~IsErr(y)
    /\ LET g == GCD(x.d, y.d) IN x.n * (y.d \div g) < y.n * (x.d \div g)
RIsZero(x) == ~IsErr(x) /\ x.n = 0
RIsPos(x) == ~IsErr(x) /\ x.n > 0

\* dict: insertion-ordered sequence of [k, v]
EmptyDict == << >>
\* the position of key in dict (keys are unique), 0 when absent
DictIndex(dict, key, i) ==
    IF \E j \in i..Len(dict) : dict[j].k = key
    THEN CHOOSE j \in i..Len(dict) : dict[j].k = key
    ELSE 0
\* key in dict
DictHas(dict, key) == DictIndex(dict, key, 1) # 0
\* dict[key]
DictGet(dict, key) == dict[DictIndex(dict, key, 1)].v
\* dict.get(key, default)
DictGetOr(dict, key, default) ==
    IF DictHas(dict, key) THEN DictGet(dict, key) ELSE default
\* dict[key] = value
DictSet(dict, key, value) ==
    IF DictHas(dict, key)
    THEN [dict EXCEPT ![DictIndex(dict, key, 1)] = [k |-> key, v |-> value]]
    ELSE Append(dict, [k |-> key, v |-> value])
\* dict.keys()
DictKeys(dict) == {dict[i].k : i \in 1..Len(dict)}

\* -------------------------------------------------------------- data model
\* Item(...) with the dataclass defaults for every field not given
Item(item_id, item_code, category_id, name, qty, unit_price, price_includes_vat, vat_rate) ==
    [item_id |-> item_id, item_code |-> item_code, category_id |-> category_id,
     name |-> name, qty |-> qty, unit_price |-> unit_price,
     price_includes_vat |-> price_includes_vat, vat_rate |-> vat_rate,
     aiu_applicable |-> TRUE, client_provided |-> FALSE, pass_through |-> FALSE,
     is_percentage_item |-> FALSE, pct_rate |-> 0, order |-> 0]

Category(category_id, label, is_equipment) ==
    [category_id |-> category_id, label |-> label, is_equipment |-> is_equipment]

\* AIUBaseRule, PercentageBase
DIRECT_COSTS_EXCL_VAT == "Costo directo (sin IVA)"
DIRECT_COSTS_EXCL_CLIENT_PROVIDED ==
    "Costo directo (sin IVA) excluyendo items 'Cliente compra'"
ONLY_SERVICES_LABOR ==
    "Solo servicios y mano de obra (excluye categorias de equipos)"
SUBTOTAL_BASE == "Subtotal base (sin IVA)"
SUBTOTAL_TOTAL == "Subtotal total (con IVA)"
BASE_AIU == "Base AIU"

\* Scenario(...) with the dataclass defaults for every field not given
Scenario(categories, items, default_vat_rate) ==
    [prices_include_vat |-> FALSE, default_vat_rate |-> default_vat_rate,
     aiu_enabled |-> FALSE, aiu_admin_pct |-> 0, aiu_imprevistos_pct |-> 0,
     aiu_utility_pct |-> 0, aiu_base_rule |-> DIRECT_COSTS_EXCL_VAT,
     transport_pct |-> 0, policies_pct |-> 0, engineering_pct |-> 0,
     pct_base_rule |-> SUBTOTAL_BASE,
     categories |-> categories, items |-> items]

\* ---------------------------------------------------------- normalize_name
\* str.lower() on the alphabet of the modelled names
LowerChar(c) ==
    CASE c = "A" -> "a"
      [] c = "B" -> "b"
      [] OTHER -> c
IsSpace(c) == c \in {" ", "\t"}
\* str.split(): the maximal runs of non-whitespace characters
RECURSIVE Split(_, _, _, _)
Split(s, i, word, words) ==
    IF i > Len(s)
    THEN IF word = << >> THEN words ELSE Append(words, word)
    ELSE IF IsSpace(s[i])
         THEN Split(s, i + 1, << >>,
                    IF word = << >> THEN words ELSE Append(words, word))
         ELSE Split(s, i + 1, Append(word, s[i]), words)
\* " ".join(words)
RECURSIVE Join(_, _)
Join(words, i) ==
    IF i > Len(words) THEN << >>
    ELSE IF i = Len(words) THEN words[i]
    ELSE words[i] \o <<" ">> \o Join(words, i + 1)
Lower(s) == [i \in 1..Len(s) |-> LowerChar(s[i])]
normalize_name(name) ==
    IF name = << >> THEN << >>
    ELSE Join(Split(Lower(name), 1, << >>, << >>), 1)

\* -------------------------------------------- match_items_by_code_and_name
Pair(item_a, item_b) == [a |-> item_a, b |-> item_b]

\* inner loop of the first pass: index of the first unused B item carrying
\* item_a's code, 0 when the loop ends without a break
RECURSIVE FindCodeMatchAny(_, _, _, _)
FindCodeMatchAny(item_a, items_b, used_b, j) ==
    IF j > Len(items_b) THEN 0
    ELSE IF items_b[j].item_id \in used_b
         THEN FindCodeMatchAny(item_a, items_b, used_b, j + 1)
    ELSE IF Truthy(items_b[j].item_code) THEN j
    ELSE FindCodeMatchAny(item_a, items_b, used_b, j + 1)
RECURSIVE FindCodeMatch(_, _, _, _)
FindCodeMatch(item_a, items_b, used_b, j) ==
    IF j > Len(items_b) THEN 0
    ELSE IF items_b[j].item_id \in used_b
         THEN FindCodeMatch(item_a, items_b, used_b, j + 1)
    ELSE IF Truthy(items_b[j].item_code)
            /\ item_a.item_code = items_b[j].item_code THEN j
    ELSE FindCodeMatch(item_a, items_b, used_b, j + 1)

\* first pass: st = [matches, used_b] after items_a[i..]
RECURSIVE CodePass(_, _, _, _)
CodePass(items_a, items_b, i, st) ==
    IF i > Len(items_a) THEN st
    ELSE LET item_a == items_a[i] IN
         IF Truthy(item_a.item_code)
         THEN LET j == FindCodeMatch(item_a, items_b, st.used_b, 1) IN
              IF j # 0
              THEN CodePass(items_a, items_b, i + 1,
                     [matches |-> Append(st.matches, Pair(item_a, items_b[j])),
                      used_b |-> st.used_b \cup {items_b[j].item_id}])
              ELSE CodePass(items_a, items_b, i + 1,
                     [matches |-> Append(st.matches, Pair(item_a, None)),
                      used_b |-> st.used_b])
         ELSE CodePass(items_a, items_b, i + 1, st)

\* `for i, (ia, ib) in enumerate(matches): if ia == item_a and ib is None`
RECURSIVE FindOpenEntry(_, _, _)
FindOpenEntry(matches, item_a, i) ==
    IF i > Len(matches) THEN 0
    ELSE IF matches[i].a = item_a /\ matches[i].b = None THEN i
    ELSE FindOpenEntry(matches, item_a, i + 1)

\* the category + normalized-name test of the second pass, category ignored
NameKeyMatchesAnyCategory(item_a, item_b) ==
    /\ normalize_name(item_a.name) = normalize_name(item_b.name)
    /\ normalize_name(item_a.name) # << >>
\* the category + normalized-name test of the second pass
NameKeyMatches(item_a, item_b) ==
    /\ item_a.category_id = item_b.category_id
    /\ normalize_name(item_a.name) = normalize_name(item_b.name)
    /\ normalize_name(item_a.name) # << >>

\* inner loop of the second pass for one item_a over unmatched_b[j..]
RECURSIVE NameScan(_, _, _, _)
NameScan(item_a, unmatched_b, j, st) ==
    IF j > Len(unmatched_b) THEN st
    ELSE LET item_b == unmatched_b[j] IN
         IF item_b.item_id \in st.used_b
         THEN NameScan(item_a, unmatched_b, j + 1, st)
         ELSE IF NameKeyMatches(item_a, item_b)
              THEN LET i == FindOpenEntry(st.matches, item_a, 1) IN
                   IF i # 0
                   THEN [matches |-> [st.matches EXCEPT ![i] = Pair(item_a, item_b)],
                         used_b |-> st.used_b \cup {item_b.item_id}]
                   ELSE NameScan(item_a, unmatched_b, j + 1, st)
              ELSE NameScan(item_a, unmatched_b, j + 1, st)

\* second pass over unmatched_a[i..]
RECURSIVE NamePass(_, _, _, _)
NamePass(unmatched_a, unmatched_b, i, st) ==
    IF i > Len(unmatched_a) THEN st
    ELSE NamePass(unmatched_a, unmatched_b, i + 1,
                  NameScan(unmatched_a[i], unmatched_b, 1, st))

match_items_by_code_and_name(items_a, items_b) ==
    LET st1 == CodePass(items_a, items_b, 1, [matches |-> << >>, used_b |-> {}])
        OpenA(m) == m.b = None
        open == SelectSeq(st1.matches, OpenA)
        unmatched_a == [i \in 1..Len(open) |-> open[i].a]
        UnusedB1(item_b) == item_b.item_id \notin st1.used_b
        unmatched_b == SelectSeq(items_b, UnusedB1)
        st2 == NamePass(unmatched_a, unmatched_b, 1, st1)
        UnusedB2(item_b) == item_b.item_id \notin st2.used_b
        only_b == SelectSeq(items_b, UnusedB2)
    IN st2.matches \o [i \in 1..Len(only_b) |-> Pair(None, only_b[i])]

\* ------------------------------------------------- calculate_item_totals
ZeroItemTotals ==
    [base_unit |-> R(0), vat_unit |-> R(0), total_unit |-> R(0),
     base_line |-> R(0), vat_line |-> R(0), total_line |-> R(0)]

\* the unit values with the tax-inclusive branch taking VAT on the price
UnitTotalsVatOnPrice(unit_price, vat_rate, price_includes_vat) ==
    IF price_includes_vat
    THEN [base_unit |-> RDiv(unit_price, RAdd(R(1), RDiv(vat_rate, R(100)))),
          vat_unit |-> RMul(unit_price, RDiv(vat_rate, R(100))),
          total_unit |-> unit_price]
    ELSE [base_unit |-> unit_price,
          vat_unit |-> RMul(unit_price, RDiv(vat_rate, R(100))),
          total_unit |-> RAdd(unit_price, RMul(unit_price, RDiv(vat_rate, R(100))))]
\* the unit values with price_includes_vat ignored
UnitTotalsAlwaysExclusive(unit_price, vat_rate, price_includes_vat) ==
    [base_unit |-> unit_price,
     vat_unit |-> RMul(unit_price, RDiv(vat_rate, R(100))),
     total_unit |-> RAdd(unit_price, RMul(unit_price, RDiv(vat_rate, R(100))))]
\* base_unit, vat_unit, total_unit of the two pricing conventions
UnitTotals(unit_price, vat_rate, price_includes_vat) ==
    IF price_includes_vat
    THEN LET base_unit == RDiv(unit_price, RAdd(R(1), RDiv(vat_rate, R(100))))
         IN [base_unit |-> base_unit,
             vat_unit |-> RSub(unit_price, base_unit),
             total_unit |-> unit_price]
    ELSE LET base_unit == unit_price
             vat_unit == RMul(base_unit, RDiv(vat_rate, R(100)))
         IN [base_unit |-> base_unit,
             vat_unit |-> vat_unit,
             total_unit |-> RAdd(base_unit, vat_unit)]

\* the rate of the item itself, the scenario default never used
EffectiveVatRateOwn(item, scenario) == item.vat_rate
\* item.vat_rate if item.vat_rate > 0 else scenario.default_vat_rate
EffectiveVatRate(item, scenario) ==
    IF item.vat_rate > 0 THEN item.vat_rate ELSE scenario.default_vat_rate

calculate_item_totals(item, scenario) ==
    IF item.is_percentage_item THEN ZeroItemTotals
    ELSE LET vat_rate == R(EffectiveVatRate(item, scenario))
             qty == R(item.qty)
             u == UnitTotals(R(item.unit_price), vat_rate, item.price_includes_vat)
         IN [base_unit |-> u.base_unit, vat_unit |-> u.vat_unit,
             total_unit |-> u.total_unit,
             base_line |-> RMul(u.base_unit, qty),
             vat_line |-> RMul(u.vat_unit, qty),
             total_line |-> RMul(u.total_unit, qty)]

\* --------------------------------------- calculate_percentage_module_value
ZeroLine == [base_line |-> R(0), vat_line |-> R(0), total_line |-> R(0)]

calculate_percentage_module_value(pct_rate, base_value, vat_rate) ==
    IF pct_rate = 0 THEN ZeroLine
    ELSE LET percentage_value == RMul(base_value, RDiv(R(pct_rate), R(100)))
             base_line == percentage_value
             vat_line == RMul(base_line, RDiv(R(vat_rate), R(100)))
         IN [base_line |-> base_line, vat_line |-> vat_line,
             total_line |-> RAdd(base_line, vat_line)]

\* ---------------------------------- calculate_aiu_base_from_total_with_vat
\* {cat.category_id for cat in scenario.categories if cat.is_equipment}
equipment_category_ids(scenario) ==
    {scenario.categories[i].category_id :
        i \in {j \in 1..Len(scenario.categories) : scenario.categories[j].is_equipment}}

\* include_item with the eligibility flag required under every rule
include_item_eligible(item, scenario) ==
    /\ item.aiu_applicable /\ ~item.client_provided /\ ~item.pass_through
    /\ (scenario.aiu_base_rule = ONLY_SERVICES_LABOR
        => item.category_id \notin equipment_category_ids(scenario))
\* include_item with the tests of the first two rules exchanged
include_item_swapped(item, scenario) ==
    LET rule == scenario.aiu_base_rule IN
    IF rule = DIRECT_COSTS_EXCL_VAT
    THEN ~item.client_provided /\ ~item.pass_through
    ELSE IF rule = DIRECT_COSTS_EXCL_CLIENT_PROVIDED
    THEN item.aiu_applicable /\ ~item.client_provided /\ ~item.pass_through
    ELSE IF rule = ONLY_SERVICES_LABOR
    THEN /\ item.aiu_applicable /\ ~item.client_provided /\ ~item.pass_through
         /\ item.category_id \notin equipment_category_ids(scenario)
    ELSE item.aiu_applicable /\ ~item.client_provided /\ ~item.pass_through
\* include_item under the scenario's aiu_base_rule
include_item(item, scenario) ==
    LET rule == scenario.aiu_base_rule IN
    IF rule = DIRECT_COSTS_EXCL_VAT
    THEN item.aiu_applicable /\ ~item.client_provided /\ ~item.pass_through
    ELSE IF rule = DIRECT_COSTS_EXCL_CLIENT_PROVIDED
    THEN ~item.client_provided /\ ~item.pass_through
    ELSE IF rule = ONLY_SERVICES_LABOR
    THEN /\ item.aiu_applicable /\ ~item.client_provided /\ ~item.pass_through
         /\ item.category_id \notin equipment_category_ids(scenario)
    ELSE item.aiu_applicable /\ ~item.client_provided /\ ~item.pass_through

\* the loop over scenario.items[i..]: acc = [included, total]
RECURSIVE InclusionLoop(_, _, _, _)
InclusionLoop(scenario, items_totals, i, acc) ==
    IF i > Len(scenario.items) THEN acc
    ELSE LET item == scenario.items[i] IN
         IF item.is_percentage_item \/ ~DictHas(items_totals, item.item_id)
         THEN InclusionLoop(scenario, items_totals, i + 1, acc)
         ELSE LET total_line == DictGet(items_totals, item.item_id).total_line IN
              InclusionLoop(scenario, items_totals, i + 1,
                  [total |-> RAdd(acc.total, total_line),
                   included |-> IF include_item(item, scenario)
                                THEN RAdd(acc.included, total_line)
                                ELSE acc.included])

calculate_aiu_base_from_total_with_vat(scenario, total_direct, items_totals) ==
    IF ~scenario.aiu_enabled THEN R(0)
    ELSE IF RIsZero(total_direct) THEN R(0)
    ELSE LET acc == InclusionLoop(scenario, items_totals, 1,
                                  [included |-> R(0), total |-> R(0)])
             inclusion_factor == IF RIsPos(acc.total)
                                 THEN RDiv(acc.included, acc.total)
                                 ELSE R(1)
         IN RMul(total_direct, inclusion_factor)

\* ------------------------------------------------------ calculate_aiu_base
\* the test of the loop of calculate_aiu_base under the scenario's rule
aiu_base_includes(item, scenario) ==
    LET rule == scenario.aiu_base_rule IN
    IF rule = DIRECT_COSTS_EXCL_VAT
    THEN /\ item.aiu_applicable /\ ~item.client_provided /\ ~item.pass_through
         /\ ~item.is_percentage_item
    ELSE IF rule = DIRECT_COSTS_EXCL_CLIENT_PROVIDED
    THEN ~item.client_provided /\ ~item.pass_through /\ ~item.is_percentage_item
    ELSE IF rule = ONLY_SERVICES_LABOR
    THEN /\ item.aiu_applicable /\ ~item.client_provided /\ ~item.pass_through
         /\ ~item.is_percentage_item
         /\ item.category_id \notin equipment_category_ids(scenario)
    ELSE /\ item.aiu_applicable /\ ~item.client_provided /\ ~item.pass_through
         /\ ~item.is_percentage_item

\* the loop with total_line added instead of base_line
RECURSIVE BaseLoopOnTotal(_, _, _, _)
BaseLoopOnTotal(scenario, items_totals, i, base) ==
    IF i > Len(scenario.items) THEN base
    ELSE LET item == scenario.items[i] IN
         IF aiu_base_includes(item, scenario) /\ DictHas(items_totals, item.item_id)
         THEN BaseLoopOnTotal(scenario, items_totals, i + 1,
                  RAdd(base, DictGet(items_totals, item.item_id).total_line))
         ELSE BaseLoopOnTotal(scenario, items_totals, i + 1, base)
\* the loop over scenario.items[i..]: base += items_totals[item_id]['base_line']
RECURSIVE BaseLoop(_, _, _, _)
BaseLoop(scenario, items_totals, i, base) ==
    IF i > Len(scenario.items) THEN base
    ELSE LET item == scenario.items[i] IN
         IF aiu_base_includes(item, scenario) /\ DictHas(items_totals, item.item_id)
         THEN BaseLoop(scenario, items_totals, i + 1,
                  RAdd(base, DictGet(items_totals, item.item_id).base_line))
         ELSE BaseLoop(scenario, items_totals, i + 1, base)

calculate_aiu_base(scenario, subtotal_base, subtotal_vat, subtotal_total, items_totals) ==
    IF ~scenario.aiu_enabled THEN R(0)
    ELSE BaseLoop(scenario, items_totals, 1, R(0))
\* --------------------------------------- calculate_percentage_item_value
calculate_percentage_item_value(item, base_value) ==
    IF ~item.is_percentage_item THEN ZeroLine
    ELSE LET percentage_value == RMul(base_value, RDiv(R(item.pct_rate), R(100)))
             vat_rate == R(IF item.vat_rate > 0 THEN item.vat_rate ELSE 19)
         IN IF item.price_includes_vat
            THEN LET base_line == RDiv(percentage_value,
                                       RAdd(R(1), RDiv(vat_rate, R(100))))
                 IN [base_line |-> base_line,
                     vat_line |-> RSub(percentage_value, base_line),
                     total_line |-> percentage_value]
            ELSE LET vat_line == RMul(percentage_value, RDiv(vat_rate, R(100)))
                 IN [base_line |-> percentage_value,
                     vat_line |-> vat_line,
                     total_line |-> RAdd(percentage_value, vat_line)]
\* -------------------------------------------- calculate_scenario_summary
ZeroSums ==
    [items_totals |-> EmptyDict,
     direct_cost_base |-> R(0), direct_cost_vat |-> R(0), direct_cost_total |-> R(0),
     epc_base |-> R(0), epc_vat |-> R(0), epc_total |-> R(0),
     client_capex_base |-> R(0), client_capex_vat |-> R(0), client_capex_total |-> R(0)]

\* the loop with the client-provided items counted in the EPC sums too
RECURSIVE ItemLoopEpcAll(_, _, _)
ItemLoopEpcAll(scenario, i, acc) ==
    IF i > Len(scenario.items) THEN acc
    ELSE LET item == scenario.items[i] IN
         IF item.is_percentage_item THEN ItemLoopEpcAll(scenario, i + 1, acc)
         ELSE LET totals == calculate_item_totals(item, scenario)
                  epc == TRUE
                  cli == item.client_provided
                  sums ==
                  [direct_cost_base |-> RAdd(acc.direct_cost_base, totals.base_line),
                   direct_cost_vat |-> RAdd(acc.direct_cost_vat, totals.vat_line),
                   direct_cost_total |-> RAdd(acc.direct_cost_total, totals.total_line),
                   items_totals |-> DictSet(acc.items_totals, item.item_id, totals),
                   epc_base |-> IF epc THEN RAdd(acc.epc_base, totals.base_line) ELSE acc.epc_base,
                   epc_vat |-> IF epc THEN RAdd(acc.epc_vat, totals.vat_line) ELSE acc.epc_vat,
                   epc_total |-> IF epc THEN RAdd(acc.epc_total, totals.total_line) ELSE acc.epc_total,
                   client_capex_base |-> IF cli THEN RAdd(acc.client_capex_base, totals.base_line) ELSE acc.client_capex_base,
                   client_capex_vat |-> IF cli THEN RAdd(acc.client_capex_vat, totals.vat_line) ELSE acc.client_capex_vat,
                   client_capex_total |-> IF cli THEN RAdd(acc.client_capex_total, totals.total_line) ELSE acc.client_capex_total]
              IN IF IsErr(sums.direct_cost_base) THEN sums
                 ELSE ItemLoopEpcAll(scenario, i + 1, sums)

\* the loop over scenario.items[i..] that accumulates the direct cost; an
\* exception raised for an item leaves the loop
RECURSIVE ItemLoop(_, _, _)
ItemLoop(scenario, i, acc) ==
    IF i > Len(scenario.items) THEN acc
    ELSE LET item == scenario.items[i] IN
         IF item.is_percentage_item THEN ItemLoop(scenario, i + 1, acc)
         ELSE LET totals == calculate_item_totals(item, scenario)
                  epc == ~item.client_provided
                  cli == item.client_provided
                  sums ==
                  [direct_cost_base |-> RAdd(acc.direct_cost_base, totals.base_line),
                   direct_cost_vat |-> RAdd(acc.direct_cost_vat, totals.vat_line),
                   direct_cost_total |-> RAdd(acc.direct_cost_total, totals.total_line),
                   items_totals |-> DictSet(acc.items_totals, item.item_id, totals),
                   epc_base |-> IF epc THEN RAdd(acc.epc_base, totals.base_line) ELSE acc.epc_base,
                   epc_vat |-> IF epc THEN RAdd(acc.epc_vat, totals.vat_line) ELSE acc.epc_vat,
                   epc_total |-> IF epc THEN RAdd(acc.epc_total, totals.total_line) ELSE acc.epc_total,
                   client_capex_base |-> IF cli THEN RAdd(acc.client_capex_base, totals.base_line) ELSE acc.client_capex_base,
                   client_capex_vat |-> IF cli THEN RAdd(acc.client_capex_vat, totals.vat_line) ELSE acc.client_capex_vat,
                   client_capex_total |-> IF cli THEN RAdd(acc.client_capex_total, totals.total_line) ELSE acc.client_capex_total]
              IN IF IsErr(sums.direct_cost_base) THEN sums
                 ELSE ItemLoop(scenario, i + 1, sums)

\* the base of the percentage modules under scenario.pct_base_rule
pct_base_value(scenario, direct_cost_base, direct_cost_total) ==
    IF scenario.pct_base_rule = SUBTOTAL_BASE THEN direct_cost_base
    ELSE IF scenario.pct_base_rule = SUBTOTAL_TOTAL THEN direct_cost_total
    ELSE IF scenario.pct_base_rule = BASE_AIU THEN direct_cost_base
    ELSE direct_cost_base

Sum3(x, y, z) == RAdd(RAdd(x, y), z)
Sum4(w, x, y, z) == RAdd(RAdd(RAdd(w, x), y), z)

\* the component with the rate taken per unit of base and no guard on the
\* base or on aiu_enabled
aiu_component_unguarded(scenario, aiu_base, pct) ==
    RMul(aiu_base, RDiv(RDiv(RMul(R(pct), aiu_base), aiu_base), R(100)))
\* aiu_base * (pct / 100.0) when AIU is enabled and aiu_base > 0, else 0.0
aiu_component(scenario, aiu_base, pct) ==
    IF scenario.aiu_enabled /\ RIsPos(aiu_base)
    THEN RMul(aiu_base, RDiv(R(pct), R(100)))
    ELSE R(0)

\* the returned dict, from the item sums acc, the three percentage modules,
\* total_direct, aiu_base and the three AIU components
summary_dict(acc, transport, policies, engineering, total_direct, aiu_base, aiu_admin, aiu_imprevistos, aiu_utility) ==
    LET aiu_total == Sum3(aiu_admin, aiu_imprevistos, aiu_utility)
    IN [direct_cost_base |-> acc.direct_cost_base,
        direct_cost_vat |-> acc.direct_cost_vat,
        direct_cost_total |-> acc.direct_cost_total,
        total_base |-> Sum4(acc.direct_cost_base, transport.base_line,
                            policies.base_line, engineering.base_line),
        total_vat |-> Sum4(acc.direct_cost_vat, transport.vat_line,
                           policies.vat_line, engineering.vat_line),
        total_direct |-> total_direct,
        transport_base |-> transport.base_line, transport_vat |-> transport.vat_line,
        transport_total |-> transport.total_line,
        policies_base |-> policies.base_line, policies_vat |-> policies.vat_line,
        policies_total |-> policies.total_line,
        engineering_base |-> engineering.base_line,
        engineering_vat |-> engineering.vat_line,
        engineering_total |-> engineering.total_line,
        aiu_base |-> aiu_base, aiu_admin |-> aiu_admin,
        aiu_imprevistos |-> aiu_imprevistos, aiu_utility |-> aiu_utility,
        aiu_total |-> aiu_total,
        grand_total |-> RAdd(total_direct, aiu_total),
        epc_base |-> Sum4(acc.epc_base, transport.base_line,
                          policies.base_line, engineering.base_line),
        epc_vat |-> Sum4(acc.epc_vat, transport.vat_line,
                         policies.vat_line, engineering.vat_line),
        epc_total |-> RAdd(Sum4(acc.epc_total, transport.total_line,
                                policies.total_line, engineering.total_line),
                           aiu_total),
        client_capex_base |-> acc.client_capex_base,
        client_capex_vat |-> acc.client_capex_vat,
        client_capex_total |-> acc.client_capex_total,
        items_totals |-> acc.items_totals]

\* the part of calculate_scenario_summary after aiu_base is known
summary_with_aiu(scenario, acc, transport, policies, engineering, total_direct, aiu_base) ==
    summary_dict(acc, transport, policies, engineering, total_direct, aiu_base,
                 aiu_component(scenario, aiu_base, scenario.aiu_admin_pct),
                 aiu_component(scenario, aiu_base, scenario.aiu_imprevistos_pct),
                 aiu_component(scenario, aiu_base, scenario.aiu_utility_pct))

\* the part after total_direct (direct cost plus percentage modules) is known
summary_with_total(scenario, acc, transport, policies, engineering, total_direct) ==
    summary_with_aiu(scenario, acc, transport, policies, engineering, total_direct,
        calculate_aiu_base_from_total_with_vat(scenario, total_direct, acc.items_totals))

\* the part after the three percentage modules are known
summary_with_modules(scenario, acc, transport, policies, engineering) ==
    summary_with_total(scenario, acc, transport, policies, engineering,
        Sum4(acc.direct_cost_total, transport.total_line,
             policies.total_line, engineering.total_line))

\* the part after the loop over the items
summary_with_sums(scenario, acc, base) ==
    summary_with_modules(scenario, acc,
        calculate_percentage_module_value(scenario.transport_pct, base,
                                          scenario.default_vat_rate),
        calculate_percentage_module_value(scenario.policies_pct, base,
                                          scenario.default_vat_rate),
        calculate_percentage_module_value(scenario.engineering_pct, base,
                                          scenario.default_vat_rate))

summary_after_loop(scenario, acc) ==
    summary_with_sums(scenario, acc,
        pct_base_value(scenario, acc.direct_cost_base, acc.direct_cost_total))

calculate_scenario_summary(scenario) ==
    summary_after_loop(scenario, ItemLoop(scenario, 1, ZeroSums))

\* ------------------------------------------------- aggregate_by_category
\* the label of the first category with the id, 'Sin categoria' when none
RECURSIVE category_name(_, _, _)
category_name(categories, category_id, i) ==
    IF i > Len(categories) THEN "Sin categoria"
    ELSE IF categories[i].category_id = category_id THEN categories[i].label
    ELSE category_name(categories, category_id, i + 1)

\* the loop with the items that carry no category_id left out
RECURSIVE CategoryLoopCategorized(_, _, _, _)
CategoryLoopCategorized(scenario, items_totals, i, category_totals) ==
    IF i > Len(scenario.items) THEN category_totals
    ELSE LET item == scenario.items[i]
             category_id == IF item.category_id # "" THEN item.category_id
                            ELSE "uncategorized"
         IN IF item.category_id = ""
            THEN CategoryLoopCategorized(scenario, items_totals, i + 1, category_totals)
            ELSE IF ~DictHas(category_totals, category_id)
            THEN CategoryLoopCategorized(scenario, items_totals, i,
                     DictSet(category_totals, category_id,
                         [name |-> category_name(scenario.categories, category_id, 1),
                          base |-> R(0), vat |-> R(0), total |-> R(0)]))
            ELSE IF DictHas(items_totals, item.item_id)
            THEN LET totals == DictGet(items_totals, item.item_id)
                     old == DictGet(category_totals, category_id)
                 IN CategoryLoopCategorized(scenario, items_totals, i + 1,
                        DictSet(category_totals, category_id,
                            [name |-> old.name,
                             base |-> RAdd(old.base, totals.base_line),
                             vat |-> RAdd(old.vat, totals.vat_line),
                             total |-> RAdd(old.total, totals.total_line)]))
            ELSE CategoryLoopCategorized(scenario, items_totals, i + 1, category_totals)

\* the loop over scenario.items[i..]; an item whose category has no entry
\* yet first creates the zero entry
RECURSIVE CategoryLoop(_, _, _, _)
CategoryLoop(scenario, items_totals, i, category_totals) ==
    IF i > Len(scenario.items) THEN category_totals
    ELSE LET item == scenario.items[i]
             category_id == IF item.category_id # "" THEN item.category_id
                            ELSE "uncategorized"
         IN IF ~DictHas(category_totals, category_id)
            THEN CategoryLoop(scenario, items_totals, i,
                     DictSet(category_totals, category_id,
                         [name |-> category_name(scenario.categories, category_id, 1),
                          base |-> R(0), vat |-> R(0), total |-> R(0)]))
            ELSE IF DictHas(items_totals, item.item_id)
            THEN LET totals == DictGet(items_totals, item.item_id)
                     old == DictGet(category_totals, category_id)
                 IN CategoryLoop(scenario, items_totals, i + 1,
                        DictSet(category_totals, category_id,
                            [name |-> old.name,
                             base |-> RAdd(old.base, totals.base_line),
                             vat |-> RAdd(old.vat, totals.vat_line),
                             total |-> RAdd(old.total, totals.total_line)]))
            ELSE CategoryLoop(scenario, items_totals, i + 1, category_totals)

aggregate_by_category(scenario, summary) ==
    CategoryLoop(scenario, summary.items_totals, 1, EmptyDict)


\* ---------------------------------------------- group_categories_by_name
\* the loop over cat_totals.items()[i..] with every entry overwriting its name
RECURSIVE GroupLoopOverwrite(_, _, _)
GroupLoopOverwrite(cat_totals, i, by_name) ==
    IF i > Len(cat_totals) THEN by_name
    ELSE LET totals == cat_totals[i].v IN
         GroupLoopOverwrite(cat_totals, i + 1,
             DictSet(by_name, totals.name,
                 [base |-> totals.base, vat |-> totals.vat, total |-> totals.total]))
\* the loop over cat_totals.items()[i..]
RECURSIVE GroupLoop(_, _, _)
GroupLoop(cat_totals, i, by_name) ==
    IF i > Len(cat_totals) THEN by_name
    ELSE LET totals == cat_totals[i].v
             cat_name == totals.name
             created == IF DictHas(by_name, cat_name) THEN by_name
                        ELSE DictSet(by_name, cat_name,
                                 [base |-> R(0), vat |-> R(0), total |-> R(0)])
             old == DictGet(created, cat_name)
         IN GroupLoop(cat_totals, i + 1,
                DictSet(created, cat_name,
                    [base |-> RAdd(old.base, totals.base),
                     vat |-> RAdd(old.vat, totals.vat),
                     total |-> RAdd(old.total, totals.total)]))

group_categories_by_name(cat_totals) == GroupLoop(cat_totals, 1, EmptyDict)

\* ------------------------------------------------------ generate_diff_pack
\* calc_delta_pct without the a == 0 guard
calc_delta_pct_unguarded(a, b) == RMul(RDiv(RSub(b, a), a), R(100))
calc_delta_pct(a, b) ==
    IF RIsZero(a) THEN (IF RIsZero(b) THEN R(0) ELSE R(100))
    ELSE RMul(RDiv(RSub(b, a), a), R(100))

\* {"a": a, "b": b, "delta": b - a, "delta_pct": calc_delta_pct(a, b)}
TotalsEntry(a, b) ==
    [a |-> a, b |-> b, delta |-> RSub(b, a), delta_pct |-> calc_delta_pct(a, b)]

totals_block(summary_a, summary_b) ==
    LET modules_base_a == Sum3(summary_a.transport_base, summary_a.policies_base,
                               summary_a.engineering_base)
        modules_base_b == Sum3(summary_b.transport_base, summary_b.policies_base,
                               summary_b.engineering_base)
        modules_total_a == Sum3(summary_a.transport_total, summary_a.policies_total,
                                summary_a.engineering_total)
        modules_total_b == Sum3(summary_b.transport_total, summary_b.policies_total,
                                summary_b.engineering_total)
    IN << [k |-> "direct_cost_base",
           v |-> TotalsEntry(summary_a.direct_cost_base, summary_b.direct_cost_base)],
          [k |-> "direct_cost_vat",
           v |-> TotalsEntry(summary_a.direct_cost_vat, summary_b.direct_cost_vat)],
          [k |-> "direct_cost_total",
           v |-> TotalsEntry(summary_a.direct_cost_total, summary_b.direct_cost_total)],
          [k |-> "modules_base", v |-> TotalsEntry(modules_base_a, modules_base_b)],
          [k |-> "modules_total", v |-> TotalsEntry(modules_total_a, modules_total_b)],
          [k |-> "aiu_total",
           v |-> TotalsEntry(summary_a.aiu_total, summary_b.aiu_total)],
          [k |-> "epc_total",
           v |-> TotalsEntry(summary_a.epc_total, summary_b.epc_total)],
          [k |-> "capex_total",
           v |-> TotalsEntry(summary_a.grand_total, summary_b.grand_total)] >>

\* str < str (code point order) on the modelled labels
LabelOrder == <<"Equipos", "Servicios", "Sin categoria">>
LabelRank(s) == CHOOSE i \in 1..Len(LabelOrder) : LabelOrder[i] = s
StrLess(s, t) == LabelRank(s) < LabelRank(t)
\* sorted(names)
RECURSIVE Sorted(_)
Sorted(names) ==
    IF names = {} THEN << >>
    ELSE LET least == CHOOSE x \in names : \A y \in names : x = y \/ StrLess(x, y)
         IN <<least>> \o Sorted(names \ {least})

ZeroCat == [base |-> R(0), vat |-> R(0), total |-> R(0)]

\* one row of by_category, delta and delta_pct taken on total
category_row_on_total(cat_name, cat_by_name_a, cat_by_name_b) ==
    LET cat_a == DictGetOr(cat_by_name_a, cat_name, ZeroCat)
        cat_b == DictGetOr(cat_by_name_b, cat_name, ZeroCat)
    IN [category |-> cat_name, base_a |-> cat_a.base, base_b |-> cat_b.base,
        delta |-> RSub(cat_b.total, cat_a.total),
        delta_pct |-> calc_delta_pct(cat_a.total, cat_b.total),
        vat_a |-> cat_a.vat, vat_b |-> cat_b.vat,
        total_a |-> cat_a.total, total_b |-> cat_b.total]
\* one row of by_category
category_row(cat_name, cat_by_name_a, cat_by_name_b) ==
    LET cat_a == DictGetOr(cat_by_name_a, cat_name, ZeroCat)
        cat_b == DictGetOr(cat_by_name_b, cat_name, ZeroCat)
        base_a == cat_a.base
        base_b == cat_b.base
    IN [category |-> cat_name, base_a |-> base_a, base_b |-> base_b,
        delta |-> RSub(base_b, base_a),
        delta_pct |-> calc_delta_pct(base_a, base_b),
        vat_a |-> cat_a.vat, vat_b |-> cat_b.vat,
        total_a |-> cat_a.total, total_b |-> cat_b.total]

by_category_block(scenario_A, scenario_B, summary_a, summary_b) ==
    LET cat_by_name_a == group_categories_by_name(aggregate_by_category(scenario_A, summary_a))
        cat_by_name_b == group_categories_by_name(aggregate_by_category(scenario_B, summary_b))
        names == Sorted(DictKeys(cat_by_name_a) \cup DictKeys(cat_by_name_b))
    IN [i \in 1..Len(names) |-> category_row(names[i], cat_by_name_a, cat_by_name_b)]

\* items_totals.get(item_id, {}).get('base_line', 0.0)
base_line_of(items_totals, item_id) ==
    IF DictHas(items_totals, item_id) THEN DictGet(items_totals, item_id).base_line
    ELSE R(0)

\* the top_items entry of one matched pair (the logistics fields incoterm,
\* delivery_point, transport and installation are not part of the Item model)
top_item(pair, scenario_A, items_totals_a, items_totals_b) ==
    IF pair.a = None
    THEN LET base_b == base_line_of(items_totals_b, pair.b.item_id) IN
         [item_code |-> OrEmpty(pair.b.item_code), name |-> pair.b.name,
          category |-> "Solo en B",
          qty_a |-> 0, qty_b |-> pair.b.qty,
          price_a |-> 0, price_b |-> pair.b.unit_price,
          base_a |-> R(0), base_b |-> base_b, delta |-> base_b,
          changes |-> [qty |-> TRUE, price |-> TRUE, vat_rate |-> FALSE]]
    ELSE IF pair.b = None
    THEN LET base_a == base_line_of(items_totals_a, pair.a.item_id) IN
         [item_code |-> OrEmpty(pair.a.item_code), name |-> pair.a.name,
          category |-> "Solo en A",
          qty_a |-> pair.a.qty, qty_b |-> 0,
          price_a |-> pair.a.unit_price, price_b |-> 0,
          base_a |-> base_a, base_b |-> R(0), delta |-> RNeg(base_a),
          changes |-> [qty |-> TRUE, price |-> TRUE, vat_rate |-> FALSE]]
    ELSE LET base_a == base_line_of(items_totals_a, pair.a.item_id)
             base_b == base_line_of(items_totals_b, pair.b.item_id)
         IN [item_code |-> IF Truthy(pair.a.item_code) THEN pair.a.item_code
                           ELSE OrEmpty(pair.b.item_code),
             name |-> pair.a.name,
             category |-> category_name(scenario_A.categories, pair.a.category_id, 1),
             qty_a |-> pair.a.qty, qty_b |-> pair.b.qty,
             price_a |-> pair.a.unit_price, price_b |-> pair.b.unit_price,
             base_a |-> base_a, base_b |-> base_b, delta |-> RSub(base_b, base_a),
             changes |-> [qty |-> pair.a.qty # pair.b.qty,
                          price |-> pair.a.unit_price # pair.b.unit_price,
                          vat_rate |-> pair.a.vat_rate # pair.b.vat_rate]]

\* list.sort(key=lambda x: abs(x['delta']), reverse=True): stable insertion
\* of entry x into a list already sorted by |delta| descending
RECURSIVE InsertByAbsDelta(_, _, _)
InsertByAbsDelta(sorted, x, i) ==
    IF i > Len(sorted) THEN Append(sorted, x)
    ELSE IF RLess(RAbs(sorted[i].delta), RAbs(x.delta))
         THEN SubSeq(sorted, 1, i - 1) \o <<x>> \o SubSeq(sorted, i, Len(sorted))
         ELSE InsertByAbsDelta(sorted, x, i + 1)
RECURSIVE SortByAbsDelta(_, _, _)
SortByAbsDelta(entries, i, sorted) ==
    IF i > Len(entries) THEN sorted
    ELSE SortByAbsDelta(entries, i + 1, InsertByAbsDelta(sorted, entries[i], 1))

\* top_items[:30]
TopN == 30
\* the truncation applied before the sort
RankAndTruncateEarly(entries) ==
    SortByAbsDelta(SubSeq(entries, 1, IF Len(entries) < TopN THEN Len(entries) ELSE TopN),
                   1, << >>)
\* top_items.sort(...); top_items = top_items[:30]
RankAndTruncate(entries) ==
    LET sorted == SortByAbsDelta(entries, 1, << >>)
    IN SubSeq(sorted, 1, IF Len(sorted) < TopN THEN Len(sorted) ELSE TopN)

top_items_block(scenario_A, scenario_B, summary_a, summary_b) ==
    LET ms == match_items_by_code_and_name(scenario_A.items, scenario_B.items)
        entries == [i \in 1..Len(ms) |->
                       top_item(ms[i], scenario_A, summary_a.items_totals,
                                summary_b.items_totals)]
    IN RankAndTruncate(entries)

generate_diff_pack(scenario_A, scenario_B, summary_a, summary_b) ==
    [totals |-> totals_block(summary_a, summary_b),
     by_category |-> by_category_block(scenario_A, scenario_B, summary_a, summary_b),
     top_items |-> top_items_block(scenario_A, scenario_B, summary_a, summary_b)]


\* ------------------------------------------------------- narrative cache
\* a raised exception: type(e).__name__ and str(e)
Raise(kind, message) == [raised |-> kind, message |-> message]
IsRaised(x) == "raised" \in DOMAIN x

\* str < str (code point order) on the keys of "totals"
TotalsKeyOrder ==
    <<"aiu_total", "capex_total", "direct_cost_base", "direct_cost_total",
      "direct_cost_vat", "epc_total", "modules_base", "modules_total">>
\* the entries of dict in the order of their keys
SortKeys(dict) ==
    LET HasKey(key) == DictHas(dict, key)
        keys == SelectSeq(TotalsKeyOrder, HasKey)
    IN [i \in 1..Len(keys) |-> [k |-> keys[i], v |-> DictGet(dict, keys[i])]]
\* json.dumps(diff_pack, sort_keys=True, default=str): the text lists the
\* keys of every dict in sorted order; "totals" is the dict of the DiffPack
\* that the model keeps in insertion order
json_dumps_sorted(diff_pack) == [diff_pack EXCEPT !.totals = SortKeys(@)]
\* the digest of the JSON text as written, keys in insertion order
get_diff_pack_hash_unsorted(diff_pack) == [md5 |-> diff_pack]
\* the MD5 digest of the key-sorted JSON text of the DiffPack: equal texts
\* give equal digests; two different texts with one digest are not modelled
get_diff_pack_hash(diff_pack) == [md5 |-> json_dumps_sorted(diff_pack)]

\* a cache file that json.load cannot parse
Corrupt == [corrupt |-> TRUE]

\* the cache never found
get_cached_analysis_miss(files, diff_hash) == None
\* files is CACHE_DIR as a dict from diff hash to the content of <hash>.json
get_cached_analysis(files, diff_hash) ==
    IF DictHas(files, diff_hash)
    THEN LET cache_data == DictGet(files, diff_hash)
         IN IF cache_data = Corrupt THEN None ELSE cache_data.analysis
    ELSE None

\* io is the outcome of the write: "ok", "open" (open raises IOError, the
\* file is untouched) or "write" (IOError after the file was truncated)
save_cached_analysis(files, diff_hash, analysis, now, io) ==
    IF io = "ok"
    THEN DictSet(files, diff_hash,
                 [hash |-> diff_hash, timestamp |-> now, analysis |-> analysis])
    ELSE IF io = "write" THEN DictSet(files, diff_hash, Corrupt)
    ELSE files

\* --------------------------------------------------- call_gemini_analysis
\* gemini is the service as the call finds it: available (the package is
\* installed), model_name (a name or None), reply (the response text as a
\* JSON object, NotJson or NetworkError)
NetworkError == [network |-> "error"]
NotJson == [text |-> "not json"]
get_available_gemini_model(api_key, gemini) == gemini.model_name

required_keys ==
    {"executive_summary", "main_drivers", "root_causes", "red_flags",
     "recommended_actions", "questions_to_validate"}

call_gemini_analysis(diff_pack, api_key, gemini) ==
    IF ~gemini.available
    THEN Raise("ImportError", "google-genai no esta instalado")
    ELSE IF get_available_gemini_model(api_key, gemini) = NoneStr
    THEN Raise("Exception", "No se encontro ningun modelo Gemini disponible")
    ELSE IF gemini.reply = NetworkError
    THEN Raise("Exception", "Error llamando a Gemini")
    ELSE IF gemini.reply = NotJson
    THEN Raise("ValueError", "Error parseando respuesta de Gemini")
    ELSE [key \in DOMAIN gemini.reply \cup required_keys |->
            IF key \in DOMAIN gemini.reply THEN gemini.reply[key] ELSE << >>]

\* ----------------------------------------------------- analyze_capex_diff
\* an entry of the call log: the function, its argument of interest (None
\* when there is none) and what it returned
Call(fn, arg, ret) == [fn |-> fn, arg |-> arg, ret |-> ret]

\* the try block with the exception left to the caller
narrative_try_uncaught(generated, diff_hash, files, io, now) ==
    IF IsRaised(generated)
    THEN [analysis |-> generated, cache |-> files,
          calls |-> <<Call("call_gemini_analysis", None, generated)>>]
    ELSE [analysis |-> generated,
          cache |-> save_cached_analysis(files, diff_hash, generated, now, io),
          calls |-> <<Call("call_gemini_analysis", None, generated),
                      Call("save_cached_analysis", generated, io)>>]
\* try: save_cached_analysis and return of what call_gemini_analysis
\* generated; except Exception: the error payload (the error text holds the
\* type name, the message and the traceback)
narrative_try(generated, diff_hash, files, io, now) ==
    IF IsRaised(generated)
    THEN [analysis |-> [error |-> [kind |-> generated.raised,
                                   message |-> generated.message],
                        message |-> "Error al generar analisis IA"],
          cache |-> files,
          calls |-> <<Call("call_gemini_analysis", None, generated)>>]
    ELSE [analysis |-> generated,
          cache |-> save_cached_analysis(files, diff_hash, generated, now, io),
          calls |-> <<Call("call_gemini_analysis", None, generated),
                      Call("save_cached_analysis", generated, io)>>]

\* the narrative call with the error payload of a failure written to the cache
narrative_caching_errors(diff_pack, diff_hash, api_key, files, gemini, io, now) ==
    LET r == narrative_try(call_gemini_analysis(diff_pack, api_key, gemini),
                           diff_hash, files, io, now)
    IN IF "error" \in DOMAIN r.analysis
       THEN [r EXCEPT !.cache = save_cached_analysis(files, diff_hash, r.analysis, now, "ok")]
       ELSE r

narrative(diff_pack, diff_hash, api_key, files, gemini, io, now) ==
    narrative_try(call_gemini_analysis(diff_pack, api_key, gemini),
                  diff_hash, files, io, now)

\* the calls of r after the cache read that returned cached_analysis
after_read(cached_analysis, r) ==
    [r EXCEPT !.calls = <<Call("get_cached_analysis", None, cached_analysis)>> \o @]
\* `if cached_analysis: return cached_analysis`, else the narrative call
cached_or(cached_analysis, diff_pack, diff_hash, api_key, files, gemini, io, now) ==
    IF cached_analysis # None
    THEN after_read(cached_analysis,
                    [analysis |-> cached_analysis, cache |-> files, calls |-> << >>])
    ELSE after_read(cached_analysis,
                    narrative(diff_pack, diff_hash, api_key, files, gemini, io, now))

\* the part after the hash with the cache read whatever force_regenerate is
cached_or_narrative_always(diff_pack, diff_hash, api_key, force_regenerate, files, gemini, io, now) ==
    cached_or(get_cached_analysis(files, diff_hash),
              diff_pack, diff_hash, api_key, files, gemini, io, now)
\* the part after the hash: the cache read unless force_regenerate, then the
\* narrative call
cached_or_narrative(diff_pack, diff_hash, api_key, force_regenerate, files, gemini, io, now) ==
    IF ~force_regenerate
    THEN cached_or(get_cached_analysis(files, diff_hash),
                   diff_pack, diff_hash, api_key, files, gemini, io, now)
    ELSE narrative(diff_pack, diff_hash, api_key, files, gemini, io, now)

\* what analyze_capex_diff did, with the DiffPack it computed
with_diff_pack(r, diff_pack) ==
    [analysis |-> r.analysis, cache |-> r.cache, calls |-> r.calls,
     diff_pack |-> diff_pack]
\* the part after generate_diff_pack
analyze_diff_pack(diff_pack, api_key, force_regenerate, files, gemini, io, now) ==
    with_diff_pack(cached_or_narrative(diff_pack, get_diff_pack_hash(diff_pack), api_key,
                                       force_regenerate, files, gemini, io, now),
                   diff_pack)

analyze_capex_diff(scenario_A, scenario_B, summary_A, summary_B, api_key, force_regenerate, files, gemini, io, now) ==
    IF ~Truthy(api_key)
    THEN [analysis |-> [error |-> "API key no configurada",
                        message |-> "Configura GEMINI_API_KEY en el archivo .env"],
          cache |-> files, calls |-> << >>, diff_pack |-> None]
    ELSE analyze_diff_pack(generate_diff_pack(scenario_A, scenario_B, summary_A, summary_B),
                           api_key, force_regenerate, files, gemini, io, now)

\* ------------------------------------------------------------------- state
VARIABLES
    scenario_a,     \* Scenario A as passed by the caller
    scenario_b,     \* Scenario B as passed by the caller
    summary_a,      \* calculate_scenario_summary(scenario_a), NotRun before the call
    summary_b,      \* calculate_scenario_summary(scenario_b), NotRun before the call
    matches,        \* value returned by match_items_by_code_and_name
    diff_pack,      \* value returned by generate_diff_pack
    item_totals,    \* value returned by calculate_item_totals
    aiu_base,       \* value returned by calculate_aiu_base
    cache,          \* the files of CACHE_DIR: diff hash -> cache_data
    analysis,       \* value returned by analyze_capex_diff
    calls,          \* the calls made by the analyze_capex_diff invocations
    library,        \* the file LIBRARY_CATEGORIES_FILE
    comparison,     \* value returned by compare_scenarios
    pc              \* "input", then "summarized", then "done"

vars == <<scenario_a, scenario_b, summary_a, summary_b, matches, diff_pack, item_totals,
          aiu_base, cache, analysis, calls, library, comparison, pc>>

NotRun == << >>

\* ------------------------------------------------- matcher specification
CodeDomain == {NoneStr, "X", "x"}
\* names over the alphabet {a, A, b, space}
NameAB == <<"a", " ", "b">>
NameABSpaced == <<" ", "A", " ", " ", "b">>
NameA == <<"a">>
NameEmpty == << >>
\* (code, category_id, name) of the matcher inputs
ItemKinds ==
    (CodeDomain \X {"c1"} \X {NameAB, NameABSpaced, NameA})
    \cup ({NoneStr, "X"} \X {"c2"} \X {NameAB})
    \cup ({NoneStr, ""} \X {"c1"} \X {NameEmpty})

\* items built from kinds, item_ids unique: base + position
MkItems(kinds, base) ==
    [i \in 1..Len(kinds) |->
        Item(base + i, kinds[i][1], kinds[i][2], kinds[i][3], 1, 100, FALSE, 19)]

InitMatch ==
    /\ \E n \in 0..MaxItems : \E m \in 0..(MaxItems - n) :
         \E ka \in [1..n -> ItemKinds], kb \in [1..m -> ItemKinds] :
            /\ scenario_a = Scenario(<< >>, MkItems(ka, 100), 19)
            /\ scenario_b = Scenario(<< >>, MkItems(kb, 200), 19)
    /\ summary_a = NotRun /\ summary_b = NotRun
    /\ matches = NotRun /\ diff_pack = NotRun /\ item_totals = NotRun
    /\ aiu_base = NotRun
    /\ cache = NotRun /\ analysis = NotRun /\ calls = NotRun
    /\ library = NotRun /\ comparison = NotRun
    /\ pc = "input"

RunMatch ==
    /\ pc = "input"
    /\ matches' = match_items_by_code_and_name(scenario_a.items, scenario_b.items)
    /\ pc' = "done"
    /\ UNCHANGED <<scenario_a, scenario_b, summary_a, summary_b, diff_pack, item_totals, aiu_base, cache, analysis, calls, library, comparison>>

NextMatch == RunMatch

SpecMatch == InitMatch /\ [][NextMatch]_vars


\* ------------------------------------------- compare-view specifications
\* render_compare: both summaries are computed from the scenario snapshots
Summarize ==
    /\ pc = "input"
    /\ summary_a' = calculate_scenario_summary(scenario_a)
    /\ summary_b' = calculate_scenario_summary(scenario_b)
    /\ pc' = "summarized"
    /\ UNCHANGED <<scenario_a, scenario_b, matches, diff_pack, item_totals, aiu_base, cache, analysis, calls, library, comparison>>

\* analyze_capex_diff: the DiffPack of the two scenarios and their summaries
GenerateDiffPack ==
    /\ pc = "summarized"
    /\ matches' = match_items_by_code_and_name(scenario_a.items, scenario_b.items)
    /\ diff_pack' = generate_diff_pack(scenario_a, scenario_b, summary_a, summary_b)
    /\ pc' = "done"
    /\ UNCHANGED <<scenario_a, scenario_b, summary_a, summary_b, item_totals, aiu_base, cache, analysis, calls, library, comparison>>

\* category / totals inputs: scenario A is drawn freely, scenario B from a
\* fixed short list that shares one category id and both labels with A
CatIds == {"c1", "c2"}
Labels == {"Equipos", "Servicios"}
CatKinds == CatIds \X Labels
\* (category_id, unit_price) of the items of scenario A
CatItemKinds == {"", "c1", "c2"} \X {100}
MkCats(kinds) ==
    [i \in 1..Len(kinds) |-> Category(kinds[i][1], kinds[i][2], FALSE)]
MkCatItems(kinds, base) ==
    [i \in 1..Len(kinds) |->
        Item(base + i, NoneStr, kinds[i][1], NameA, 1, kinds[i][2], FALSE, 19)]
CategoriesB == <<Category("c1", "Servicios", FALSE), Category("c3", "Equipos", TRUE)>>
ItemsBChoices ==
    { << >>, << <<"c1", 100>> >>, << <<"c3", 100>> >>,
      << <<"c1", 100>>, <<"c3", 50>> >> }

InitDiff ==
    /\ \E nc \in 0..MaxCats, ni \in 0..MaxCatItems :
         \E kc \in [1..nc -> CatKinds], ki \in [1..ni -> CatItemKinds] :
            scenario_a = Scenario(MkCats(kc), MkCatItems(ki, 100), 19)
    /\ \E kb \in ItemsBChoices :
            scenario_b = Scenario(CategoriesB, MkCatItems(kb, 200), 19)
    /\ summary_a = NotRun /\ summary_b = NotRun
    /\ matches = NotRun /\ diff_pack = NotRun /\ item_totals = NotRun
    /\ aiu_base = NotRun
    /\ cache = NotRun /\ analysis = NotRun /\ calls = NotRun
    /\ library = NotRun /\ comparison = NotRun
    /\ pc = "input"

NextDiff == Summarize \/ GenerateDiffPack

SpecDiff == InitDiff /\ [][NextDiff]_vars

\* ranking inputs: n items whose prices repeat a pattern; the first k go to
\* scenario A, all with code "X" (so they pair with nothing but an "X" item
\* of B), the rest go to scenario B without a code; with_match gives the
\* first B item the code "X"
PatternPrices == {0, 2, 5}
SplitPoints(n) == {0, n \div 2, n}
\* numbers of items: a few, and those around the top_items limit
PairCounts == (0..2) \cup ((TopN - 1)..MaxPairs)
PatternItem(id, code, price) == Item(id, code, "c1", NameA, 1, price, FALSE, 19)
PatternItemsA(pattern, k) ==
    [i \in 1..k |-> PatternItem(100 + i, "X", pattern[((i - 1) % PatternLen) + 1])]
PatternItemsB(pattern, k, n, with_match) ==
    [i \in 1..(n - k) |->
        PatternItem(200 + i, IF with_match /\ i = 1 THEN "X" ELSE NoneStr,
                    pattern[((k + i - 1) % PatternLen) + 1])]

InitTop ==
    /\ \E n \in PairCounts, with_match \in BOOLEAN :
         \E k \in SplitPoints(n), pattern \in [1..PatternLen -> PatternPrices] :
            /\ scenario_a = Scenario(<< >>, PatternItemsA(pattern, k), 19)
            /\ scenario_b = Scenario(<< >>, PatternItemsB(pattern, k, n, with_match), 19)
    /\ summary_a = NotRun /\ summary_b = NotRun
    /\ matches = NotRun /\ diff_pack = NotRun /\ item_totals = NotRun
    /\ aiu_base = NotRun
    /\ cache = NotRun /\ analysis = NotRun /\ calls = NotRun
    /\ library = NotRun /\ comparison = NotRun
    /\ pc = "input"

NextTop == Summarize \/ GenerateDiffPack

SpecTop == InitTop /\ [][NextTop]_vars

\* ------------------------------------------------ item-totals specification
UnitPrices == {0, 100, 119}
\* the editor clamps IVA % and the default IVA to 0..100
VatRates == {0, 5, 19, 100}
DefaultVatRates == {0, 19, 100}

InitItem ==
    /\ \E unit_price \in UnitPrices, qty \in 0..MaxQty, vat_rate \in VatRates :
         \E price_includes_vat \in BOOLEAN, is_percentage_item \in BOOLEAN :
           \E default_vat_rate \in DefaultVatRates :
            scenario_a = Scenario(<< >>,
                << [Item(1, "PAN-1", "c1", NameA, qty, unit_price,
                         price_includes_vat, vat_rate)
                      EXCEPT !.is_percentage_item = is_percentage_item,
                             !.pct_rate = IF is_percentage_item THEN 5 ELSE 0] >>,
                default_vat_rate)
    /\ scenario_b = Scenario(<< >>, << >>, 19)
    /\ summary_a = NotRun /\ summary_b = NotRun
    /\ matches = NotRun /\ diff_pack = NotRun /\ item_totals = NotRun
    /\ aiu_base = NotRun
    /\ cache = NotRun /\ analysis = NotRun /\ calls = NotRun
    /\ library = NotRun /\ comparison = NotRun
    /\ pc = "input"

CalcItemTotals ==
    /\ pc = "input"
    /\ item_totals' = calculate_item_totals(scenario_a.items[1], scenario_a)
    /\ pc' = "done"
    /\ UNCHANGED <<scenario_a, scenario_b, summary_a, summary_b, matches, diff_pack, aiu_base, cache, analysis, calls, library, comparison>>

NextItem == CalcItemTotals

SpecItem == InitItem /\ [][NextItem]_vars

\* ------------------------------------------------ markup-base specification
\* the caller of calculate_aiu_base passes the sums and items_totals of the
\* summary
ResolveAiuBase ==
    /\ pc = "summarized"
    /\ aiu_base' = calculate_aiu_base(scenario_a, summary_a.direct_cost_base,
                                      summary_a.direct_cost_vat,
                                      summary_a.direct_cost_total,
                                      summary_a.items_totals)
    /\ pc' = "done"
    /\ UNCHANGED <<scenario_a, scenario_b, summary_a, summary_b, matches, diff_pack, item_totals, cache, analysis, calls, library, comparison>>

\* a stored aiu_base_rule that is none of the three AIUBaseRule values
UnknownRule == "Regla anterior"
AiuBaseRules == {DIRECT_COSTS_EXCL_VAT, DIRECT_COSTS_EXCL_CLIENT_PROVIDED,
                 ONLY_SERVICES_LABOR, UnknownRule}
PctBaseRules == {SUBTOTAL_BASE, SUBTOTAL_TOTAL, BASE_AIU}
\* transport_pct, policies_pct, engineering_pct
ModulePcts == {<<0, 0, 0>>, <<10, 2, 3>>}
AiuCategories == <<Category("c1", "Equipos", TRUE), Category("c2", "Servicios", FALSE)>>
\* an item of the markup-base inputs: kind = [aiu_applicable, client_provided,
\* pass_through, is_percentage_item, category_id, unit_price]
AiuItem(id, kind) ==
    [Item(id, NoneStr, kind.category_id, NameA, 1, kind.unit_price, FALSE, 19)
        EXCEPT !.aiu_applicable = kind.aiu_applicable,
               !.client_provided = kind.client_provided,
               !.pass_through = kind.pass_through,
               !.is_percentage_item = kind.is_percentage_item,
               !.pct_rate = IF kind.is_percentage_item THEN 5 ELSE 0]
AiuKind(a, c, p, pct, cat, price) ==
    [aiu_applicable |-> a, client_provided |-> c, pass_through |-> p,
     is_percentage_item |-> pct, category_id |-> cat, unit_price |-> price]
\* the first item takes every combination of the flags, or a zero or a
\* negative price (parse_number accepts a leading minus sign)
FirstKinds ==
    {AiuKind(a, c, p, pct, cat, 100) :
        a \in BOOLEAN, c \in BOOLEAN, p \in BOOLEAN, pct \in BOOLEAN, cat \in {"c1", "c2"}}
    \cup {AiuKind(TRUE, c, FALSE, FALSE, "c2", price) : c \in BOOLEAN, price \in {0, 0 - 100}}
\* the further items
RestKinds ==
    {AiuKind(TRUE, FALSE, FALSE, FALSE, "c2", 50),
     AiuKind(TRUE, TRUE, FALSE, FALSE, "c2", 30),
     AiuKind(TRUE, FALSE, FALSE, FALSE, "c1", 20)}
AiuItemLists ==
    {<< >>} \cup
    UNION {{<<AiuItem(301, first)>> \o [i \in 1..n |-> AiuItem(301 + i, rest[i])] :
               first \in FirstKinds, rest \in [1..n -> RestKinds]} :
           n \in 0..(MaxAiuItems - 1)}

InitAiu ==
    /\ \E items \in AiuItemLists, aiu_enabled \in BOOLEAN, module_pcts \in ModulePcts :
         \E aiu_base_rule \in AiuBaseRules, pct_base_rule \in PctBaseRules :
            scenario_a = [Scenario(AiuCategories, items, 19)
                            EXCEPT !.aiu_enabled = aiu_enabled,
                                   !.aiu_base_rule = aiu_base_rule,
                                   !.pct_base_rule = pct_base_rule,
                                   !.transport_pct = module_pcts[1],
                                   !.policies_pct = module_pcts[2],
                                   !.engineering_pct = module_pcts[3],
                                   !.aiu_admin_pct = 10,
                                   !.aiu_imprevistos_pct = 5,
                                   !.aiu_utility_pct = 5]
    /\ scenario_b = Scenario(<< >>, << >>, 19)
    /\ summary_a = NotRun /\ summary_b = NotRun
    /\ matches = NotRun /\ diff_pack = NotRun /\ item_totals = NotRun
    /\ aiu_base = NotRun
    /\ cache = NotRun /\ analysis = NotRun /\ calls = NotRun
    /\ library = NotRun /\ comparison = NotRun
    /\ pc = "input"

NextAiu == Summarize \/ ResolveAiuBase

SpecAiu == InitAiu /\ [][NextAiu]_vars

\* ---------------------------------------------- stored-scenario specification
\* Scenario.from_dict takes default_vat_rate and the items' vat_rate from the
\* stored data as they are; only the editor keeps them within 0..100
MaxStoredItems == 2
StoredDefaultVatRates == {0 - 100, 0 - 19, 0, 19}
StoredVatRates == {0 - 100, 0, 19}
StoredKinds == StoredVatRates \X BOOLEAN \X {0, 100}
StoredItem(id, kind) == Item(id, NoneStr, "c1", NameA, 1, kind[3], kind[2], kind[1])
StoredItemLists ==
    UNION {[1..n -> StoredKinds] : n \in 0..MaxStoredItems}

InitStored ==
    /\ \E kinds \in StoredItemLists, default_vat_rate \in StoredDefaultVatRates :
         \E aiu_enabled \in BOOLEAN, module_pcts \in ModulePcts :
            /\ scenario_a = [Scenario(<< >>,
                                      [i \in 1..Len(kinds) |-> StoredItem(i, kinds[i])],
                                      default_vat_rate)
                             EXCEPT !.aiu_enabled = aiu_enabled,
                                    !.aiu_admin_pct = IF aiu_enabled THEN 10 ELSE 0,
                                    !.transport_pct = module_pcts[1],
                                    !.policies_pct = module_pcts[2],
                                    !.engineering_pct = module_pcts[3]]
            /\ scenario_b = Scenario(<< >>, << >>, default_vat_rate)
    /\ summary_a = NotRun /\ summary_b = NotRun
    /\ matches = NotRun /\ diff_pack = NotRun /\ item_totals = NotRun
    /\ aiu_base = NotRun
    /\ cache = NotRun /\ analysis = NotRun /\ calls = NotRun
    /\ library = NotRun /\ comparison = NotRun
    /\ pc = "input"

NextStored == Summarize

SpecStored == InitStored /\ [][NextStored]_vars
\* --------------------------------------------------- analysis specification
MaxAnalyses == 2
\* os.getenv("GEMINI_API_KEY")
ApiKeys == {NoneStr, "", "AIza-key"}
PartialReply == [executive_summary |-> <<"n1">>, main_drivers |-> <<"d1">>]
FullReply ==
    [executive_summary |-> <<"n2">>, main_drivers |-> <<"d2">>,
     root_causes |-> << >>, red_flags |-> << >>,
     recommended_actions |-> <<"a2">>, questions_to_validate |-> << >>]
Replying(reply) == [available |-> TRUE, model_name |-> "gemini-pro", reply |-> reply]
\* the service and the file system as one call finds them: the write is
\* reached only after a parsed reply
Environments ==
    {[gemini |-> gemini, io |-> "ok"] :
        gemini \in {[available |-> FALSE, model_name |-> NoneStr, reply |-> NetworkError],
                    [available |-> TRUE, model_name |-> NoneStr, reply |-> NetworkError],
                    Replying(NetworkError), Replying(NotJson)}}
    \cup {[gemini |-> Replying(reply), io |-> io] :
             reply \in {PartialReply, FullReply}, io \in {"ok", "open", "write"}}

\* the positions of the analyze_capex_diff invocations in the call log
Invocations(log) == {i \in 1..Len(log) : log[i].fn = "analyze_capex_diff"}

\* render_compare: the button is offered only with an API key; every click
\* calls analyze_capex_diff with the checkbox value
AnalyzeCapexDiff ==
    /\ pc = "summarized"
    /\ Cardinality(Invocations(calls)) < MaxAnalyses
    /\ \E api_key \in ApiKeys, force_regenerate \in BOOLEAN :
         \E env \in Environments :
            /\ Truthy(api_key)
            /\ \E r \in {analyze_capex_diff(scenario_a, scenario_b, summary_a, summary_b,
                                              api_key, force_regenerate, cache,
                                              env.gemini, env.io,
                                              Cardinality(Invocations(calls)) + 1)} :
                  /\ analysis' = r.analysis
                  /\ cache' = r.cache
                  /\ diff_pack' = r.diff_pack
                  /\ calls' = calls
                        \o <<Call("analyze_capex_diff",
                                  [api_key |-> api_key,
                                   force_regenerate |-> force_regenerate],
                                  r.analysis)>>
                        \o r.calls
    /\ UNCHANGED <<scenario_a, scenario_b, summary_a, summary_b, matches, item_totals, aiu_base, library, comparison, pc>>

\* the scenarios of the comparison; CACHE_DIR is created empty
AnalysisItem(id, price) == Item(id, "PAN-1", "c1", NameA, 1, price, FALSE, 19)
AnalysisScenarioA == Scenario(<< >>, <<AnalysisItem(401, 100)>>, 19)
AnalysisScenarioB(price) == Scenario(<< >>, <<AnalysisItem(402, price)>>, 19)
AnalysisPricesB == {100, 120}

InitAnalyze ==
    /\ scenario_a = AnalysisScenarioA
    /\ \E price \in AnalysisPricesB : scenario_b = AnalysisScenarioB(price)
    /\ cache = EmptyDict
    /\ summary_a = NotRun /\ summary_b = NotRun
    /\ matches = NotRun /\ diff_pack = NotRun /\ item_totals = NotRun
    /\ aiu_base = NotRun
    /\ analysis = NotRun /\ calls = << >>
    /\ library = NotRun /\ comparison = NotRun
    /\ pc = "input"

NextAnalyze == Summarize \/ AnalyzeCapexDiff

SpecAnalyze == InitAnalyze /\ [][NextAnalyze]_vars
\* ------------------------------------------------------ claims, matcher
ItemsA == scenario_a.items
ItemsB == scenario_b.items
\* number of pairs whose first (second) component is the item
CountAsA(item) == Cardinality({k \in 1..Len(matches) : matches[k].a = item})
CountAsB(item) == Cardinality({k \in 1..Len(matches) : matches[k].b = item})
SameCode(item_a, item_b) ==
    /\ item_a # None /\ item_b # None
    /\ Truthy(item_a.item_code) /\ item_a.item_code = item_b.item_code
\* identical category_id and identical normalized name
SameKey(item_a, item_b) ==
    /\ item_a # None /\ item_b # None
    /\ item_a.category_id = item_b.category_id
    /\ normalize_name(item_a.name) = normalize_name(item_b.name)
Named(item) == normalize_name(item.name) # << >>
\* the B item paired with an A item in the result, None when there is none
PartnerOf(item_a) ==
    IF \E k \in 1..Len(matches) : matches[k].a = item_a
    THEN matches[CHOOSE k \in 1..Len(matches) : matches[k].a = item_a].b
    ELSE None
\* the B item is reported as only-in-B
OnlyInB(item_b) == \E k \in 1..Len(matches) : matches[k] = Pair(None, item_b)

\* C1: every item of A is the first component of exactly one pair and every
\* item of B the second component of exactly one pair, items without an
\* item_code included.
C1_EveryItemInExactlyOnePair ==
    pc = "done" =>
        /\ \A i \in 1..Len(ItemsA) : CountAsA(ItemsA[i]) = 1
        /\ \A j \in 1..Len(ItemsB) : CountAsB(ItemsB[j]) = 1

\* C2: an A item that the code pass left unmatched (no item_code, or no B
\* item with its code) and that has a name is paired with a B item of the
\* same category_id and normalized name whenever such a B item is still
\* unmatched; and no pair is formed on a partial name match.
C2_UnmatchedPairedByName ==
    pc = "done" =>
        /\ \A i \in 1..Len(ItemsA) :
             LET item_a == ItemsA[i] IN
             (/\ Named(item_a)
              /\ ~(PartnerOf(item_a) # None /\ SameCode(item_a, PartnerOf(item_a))))
             => \/ PartnerOf(item_a) # None /\ SameKey(item_a, PartnerOf(item_a))
                \/ ~\E j \in 1..Len(ItemsB) :
                       SameKey(item_a, ItemsB[j]) /\ OnlyInB(ItemsB[j])
        /\ \A k \in 1..Len(matches) :
             (matches[k].a # None /\ matches[k].b # None)
             => SameCode(matches[k].a, matches[k].b) \/ SameKey(matches[k].a, matches[k].b)

\* C3: code matching has priority over name matching.  An A item with an
\* item_code is paired with a B item of another code, or with none, only when
\* every B item carrying its code is paired with an A item of that code; and
\* no B item is the second component of two pairs.
C3_CodePriority ==
    pc = "done" =>
        /\ \A i \in 1..Len(ItemsA) :
             LET item_a == ItemsA[i] IN
             (Truthy(item_a.item_code) /\ ~SameCode(item_a, PartnerOf(item_a)))
             => \A j \in 1..Len(ItemsB) :
                   SameCode(item_a, ItemsB[j])
                   => \E k \in 1..Len(matches) :
                         /\ matches[k].b = ItemsB[j]
                         /\ matches[k].a # None
                         /\ SameCode(matches[k].a, ItemsB[j])
        /\ \A j \in 1..Len(ItemsB) : CountAsB(ItemsB[j]) <= 1
\* an A item is paired by code with a B item of a different name while another
\* B item with its category and normalized name is left as only-in-B
C3_Witness ==
    /\ pc = "done"
    /\ \E i \in 1..Len(ItemsA) :
         LET item_a == ItemsA[i] IN
         /\ PartnerOf(item_a) # None
         /\ SameCode(item_a, PartnerOf(item_a))
         /\ normalize_name(item_a.name) # normalize_name(PartnerOf(item_a).name)
         /\ \E j \in 1..Len(ItemsB) :
              /\ Named(item_a)
              /\ SameKey(item_a, ItemsB[j])
              /\ OnlyInB(ItemsB[j])

\* permutations of 1..n
Perms(n) == {p \in [1..n -> 1..n] : \A i, j \in 1..n : p[i] = p[j] => i = j}
Permuted(seq, p) == [i \in 1..Len(seq) |-> seq[p[i]]]
PairSet(ms) == {ms[k] : k \in 1..Len(ms)}
OrderIndependent ==
    \A pa \in Perms(Len(ItemsA)), pb \in Perms(Len(ItemsB)) :
        PairSet(match_items_by_code_and_name(Permuted(ItemsA, pa), Permuted(ItemsB, pb)))
            = PairSet(matches)
\* no two items of the list share a non-empty item_code, and no two named
\* items share category_id and normalized name
UniqueCodesAndKeys(items) ==
    \A i, j \in 1..Len(items) :
        i # j => /\ ~SameCode(items[i], items[j])
                 /\ ~(Named(items[i]) /\ SameKey(items[i], items[j]))

\* C4 as claimed: permuting the items inside A or inside B leaves the set of
\* returned pairs unchanged.
C4_OrderIndependent == pc = "done" => OrderIndependent
\* C4 amended: when, within each list, no two items share a non-empty
\* item_code and no two named items share category_id and normalized name,
\* permuting the items inside A or inside B leaves the set of returned pairs
\* unchanged.
C4_OrderIndependentUnique ==
    (pc = "done" /\ UniqueCodesAndKeys(ItemsA) /\ UniqueCodesAndKeys(ItemsB))
    => OrderIndependent
\* two A items and two B items, all codes and keys unique, with a pair made,
\* an A item left alone and a B item left alone
C4_Witness ==
    /\ pc = "done"
    /\ UniqueCodesAndKeys(ItemsA) /\ UniqueCodesAndKeys(ItemsB)
    /\ Len(ItemsA) >= 2 /\ Len(ItemsB) >= 1
    /\ \E k \in 1..Len(matches) : matches[k].a # None /\ matches[k].b # None
    /\ \E k \in 1..Len(matches) : matches[k].a # None /\ matches[k].b = None

\* ----------------------------------------------------- claims, top items
TopItems == diff_pack.top_items
\* |delta| of one matched pair: B's base_line minus A's, a missing side is 0
PairAbsDelta(pair) ==
    RAbs(RSub(IF pair.b = None THEN R(0)
              ELSE base_line_of(summary_b.items_totals, pair.b.item_id),
              IF pair.a = None THEN R(0)
              ELSE base_line_of(summary_a.items_totals, pair.a.item_id)))
\* how many matched pairs, and how many kept entries, have |delta| = t
CountPairs(t) == Cardinality({k \in 1..Len(matches) : PairAbsDelta(matches[k]) = t})
CountTop(t) == Cardinality({i \in 1..Len(TopItems) : RAbs(TopItems[i].delta) = t})

\* C5: top_items never has more than 30 entries, its entries are in
\* non-increasing order of |delta|, and when there are more than 30 matched
\* pairs the entries kept are the 30 with the largest |delta|.
C5_TopItemsLargestThirty ==
    pc = "done" =>
        /\ Len(TopItems) <= 30
        /\ Len(TopItems) = IF Len(matches) > 30 THEN 30 ELSE Len(matches)
        /\ \A i \in 1..(Len(TopItems) - 1) :
             ~RLess(RAbs(TopItems[i].delta), RAbs(TopItems[i + 1].delta))
        /\ \A i \in 1..Len(TopItems) :
             CountTop(RAbs(TopItems[i].delta)) <= CountPairs(RAbs(TopItems[i].delta))
        /\ \A k \in 1..Len(matches) :
             LET t == PairAbsDelta(matches[k]) IN
             CountTop(t) < CountPairs(t)
             => \A i \in 1..Len(TopItems) : ~RLess(RAbs(TopItems[i].delta), t)
\* more than 30 pairs, one of them beyond position 30 with a |delta| larger
\* than the smallest kept one, and a pair with a non-zero |delta| dropped
C5_Witness ==
    /\ pc = "done"
    /\ Len(matches) > 30
    /\ Len(TopItems) = 30
    /\ \E k \in 31..Len(matches) :
         RLess(RAbs(TopItems[30].delta), PairAbsDelta(matches[k]))
    /\ \E k \in 1..30 :
         /\ RIsPos(PairAbsDelta(matches[k]))
         /\ CountTop(PairAbsDelta(matches[k])) < CountPairs(PairAbsDelta(matches[k]))

\* -------------------------------------------------- claims, totals, rows
Totals == diff_pack.totals
Rows == diff_pack.by_category
\* the change of b relative to a, in percent
ExpectedDeltaPct(a, b) ==
    IF a = R(0) /\ b = R(0) THEN R(0)
    ELSE IF a = R(0) THEN R(100)
    ELSE RMul(RDiv(RSub(b, a), a), R(100))

\* C6: every pair (a, b) of the totals block and of the by_category rows has
\* delta = b - a and delta_pct = 0 when a = b = 0, 100 when a = 0 and b # 0,
\* (b - a) / a * 100 otherwise; (0, 0) gives 0, (0, 100) gives 100 and
\* (100, 0) gives -100.
C6_DeltaAndDeltaPct ==
    pc = "done" =>
        /\ \A i \in 1..Len(Totals) :
             LET e == Totals[i].v IN
             /\ e.delta = RSub(e.b, e.a)
             /\ e.delta_pct = ExpectedDeltaPct(e.a, e.b)
             /\ ~IsErr(e.delta_pct)
        /\ \A i \in 1..Len(Rows) :
             LET r == Rows[i] IN
             /\ r.delta = RSub(r.base_b, r.base_a)
             /\ r.delta_pct = ExpectedDeltaPct(r.base_a, r.base_b)
             /\ (r.base_a = R(0) /\ r.base_b = R(0)) => r.delta_pct = R(0)
             /\ (r.base_a = R(0) /\ r.base_b = R(100)) => r.delta_pct = R(100)
             /\ (r.base_a = R(100) /\ r.base_b = R(0)) => r.delta_pct = R(0 - 100)
\* one comparison showing (0, 100), (100, 0) and (0, 0)
C6_Witness ==
    /\ pc = "done"
    /\ \E i \in 1..Len(Rows) :
         Rows[i].base_a = R(0) /\ Rows[i].base_b = R(100) /\ Rows[i].delta_pct = R(100)
    /\ \E i \in 1..Len(Rows) :
         Rows[i].base_a = R(100) /\ Rows[i].base_b = R(0) /\ Rows[i].delta_pct = R(0 - 100)
    /\ \E i \in 1..Len(Totals) :
         Totals[i].v.a = R(0) /\ Totals[i].v.b = R(0) /\ Totals[i].v.delta_pct = R(0)

\* the per-id aggregates of scenario A and their merge by name
CatTotalsA == aggregate_by_category(scenario_a, summary_a)
CatTotalsB == aggregate_by_category(scenario_b, summary_b)
CatByNameA == group_categories_by_name(CatTotalsA)
CatByNameB == group_categories_by_name(CatTotalsB)
\* the positions of cat_totals whose label is cat_name
WithName(cat_totals, cat_name) ==
    {i \in 1..Len(cat_totals) : cat_totals[i].v.name = cat_name}
\* the sum of one field over a set of positions of cat_totals
RECURSIVE SumField(_, _, _)
SumField(cat_totals, field, positions) ==
    IF positions = {} THEN R(0)
    ELSE LET i == CHOOSE x \in positions : TRUE
         IN RAdd(cat_totals[i].v[field], SumField(cat_totals, field, positions \ {i}))
\* the label is carried by two or more category ids of cat_totals
SharedLabel(cat_totals, cat_name) == Cardinality(WithName(cat_totals, cat_name)) >= 2

NamesA == DictKeys(CatByNameA)
NamesB == DictKeys(CatByNameB)
\* C8: by_category has exactly one row per category name of either
\* scenario's name-merged aggregates, in ascending name order; a name absent
\* from one scenario has base, vat and total 0 on that side; each row's delta
\* and delta_pct are computed on base.
C8_ByCategoryRows ==
    pc = "done" =>
        \A by_a \in {CatByNameA} :
          \A by_b \in {CatByNameB} :
            \A names_a \in {DictKeys(by_a)} :
              \A names_b \in {DictKeys(by_b)} :
                /\ {Rows[i].category : i \in 1..Len(Rows)} = names_a \cup names_b
                /\ Len(Rows) = Cardinality(names_a \cup names_b)
                /\ \A i \in 1..(Len(Rows) - 1) : StrLess(Rows[i].category, Rows[i + 1].category)
                /\ \A i \in 1..Len(Rows) :
                     LET r == Rows[i]
                         side_a == IF r.category \in names_a THEN DictGet(by_a, r.category)
                                   ELSE [base |-> R(0), vat |-> R(0), total |-> R(0)]
                         side_b == IF r.category \in names_b THEN DictGet(by_b, r.category)
                                   ELSE [base |-> R(0), vat |-> R(0), total |-> R(0)]
                     IN /\ r.base_a = side_a.base /\ r.vat_a = side_a.vat /\ r.total_a = side_a.total
                        /\ r.base_b = side_b.base /\ r.vat_b = side_b.vat /\ r.total_b = side_b.total
                        /\ r.delta = RSub(side_b.base, side_a.base)
                        /\ r.delta_pct = ExpectedDeltaPct(side_a.base, side_b.base)
\* rows for a name of both scenarios, a name only of A and a name only of B,
\* the shared one with different VAT shares so that base and total disagree
C8_Witness ==
    /\ pc = "done"
    /\ Len(Rows) >= 2
    /\ \E i \in 1..Len(Rows) : Rows[i].category \in NamesA \ NamesB
                                /\ RIsPos(Rows[i].total_a)
    /\ \E i \in 1..Len(Rows) : Rows[i].category \in NamesB \ NamesA
                                /\ RIsPos(Rows[i].total_b)

\* -------------------------------------------------- claims, item totals
TheItem == scenario_a.items[1]

\* C9: for every non-percentage item, base_unit + vat_unit = total_unit and
\* base_line + vat_line = total_line.
C9_BasePlusVatIsTotal ==
    (pc = "done" /\ ~TheItem.is_percentage_item) =>
        /\ ~IsErr(item_totals.total_unit) /\ ~IsErr(item_totals.total_line)
        /\ RAdd(item_totals.base_unit, item_totals.vat_unit) = item_totals.total_unit
        /\ RAdd(item_totals.base_line, item_totals.vat_line) = item_totals.total_line
\* a VAT-inclusive item with a non-zero VAT amount and a quantity of two
C9_Witness ==
    /\ pc = "done"
    /\ ~TheItem.is_percentage_item
    /\ TheItem.price_includes_vat
    /\ TheItem.unit_price = 119 /\ TheItem.vat_rate = 19 /\ TheItem.qty = 2
    /\ item_totals.base_line = R(200) /\ item_totals.vat_line = R(38)
    /\ item_totals.total_line = R(238)

\* C10: for a non-percentage item whose price includes VAT,
\* total_line = unit_price * qty.
C10_InclusiveTotalIsPriceTimesQty ==
    (pc = "done" /\ ~TheItem.is_percentage_item /\ TheItem.price_includes_vat) =>
        item_totals.total_line = RMul(R(TheItem.unit_price), R(TheItem.qty))
\* a VAT-inclusive item with a price, a VAT rate and a quantity above one
C10_Witness ==
    /\ pc = "done"
    /\ ~TheItem.is_percentage_item
    /\ TheItem.price_includes_vat
    /\ TheItem.unit_price = 100 /\ TheItem.vat_rate = 5 /\ TheItem.qty = 3
    /\ item_totals.total_line = R(300)
    /\ RLess(item_totals.base_line, item_totals.total_line)

\* ---------------------------------------------- claims, effective VAT rate
\* item.vat_rate when it is above 0, the scenario default otherwise
ExpectedVatRate == IF TheItem.vat_rate > 0 THEN R(TheItem.vat_rate)
                   ELSE R(scenario_a.default_vat_rate)

AiuItems == scenario_a.items
\* markup-eligible, not customer-provided, not pass-through
Policy1(item) == item.aiu_applicable /\ ~item.client_provided /\ ~item.pass_through
AllPlainEligible ==
    \A i \in 1..Len(AiuItems) : Policy1(AiuItems[i]) /\ ~AiuItems[i].is_percentage_item

\* C12: with markup enabled and rule DIRECT_COSTS_EXCL_VAT, when every item
\* is markup-eligible, not customer-provided, not pass-through and not a
\* percentage item, calculate_aiu_base returns exactly the direct-cost base
\* of the scenario.
C12_AiuBaseIsDirectCostBase ==
    (/\ pc = "done"
     /\ scenario_a.aiu_enabled
     /\ scenario_a.aiu_base_rule = DIRECT_COSTS_EXCL_VAT
     /\ AllPlainEligible)
    => aiu_base = summary_a.direct_cost_base
\* two eligible items with base 100 and 50: the base is 150
C12_Witness ==
    /\ pc = "done"
    /\ scenario_a.aiu_enabled
    /\ scenario_a.aiu_base_rule = DIRECT_COSTS_EXCL_VAT
    /\ AllPlainEligible
    /\ Len(AiuItems) = 2
    /\ summary_a.direct_cost_base = R(150)
    /\ aiu_base = R(150)

\* the item counts toward the markup base under the scenario's policy
PolicyCounts(item) ==
    /\ ~item.is_percentage_item
    /\ IF scenario_a.aiu_base_rule = DIRECT_COSTS_EXCL_CLIENT_PROVIDED
       THEN ~item.client_provided /\ ~item.pass_through
       ELSE IF scenario_a.aiu_base_rule = ONLY_SERVICES_LABOR
       THEN Policy1(item)
            /\ \A k \in 1..Len(scenario_a.categories) :
                 scenario_a.categories[k].category_id = item.category_id
                 => ~scenario_a.categories[k].is_equipment
       ELSE Policy1(item)
PlainItems == {i \in 1..Len(AiuItems) : ~AiuItems[i].is_percentage_item}

\* C13: with markup enabled, calculate_aiu_base_from_total_with_vat returns
\* the full combined tax-inclusive total when every non-percentage item
\* satisfies the policy, and 0 when no item satisfies it.
C13_AllOrNothingBase ==
    (pc # "input" /\ scenario_a.aiu_enabled) =>
        /\ (\A i \in PlainItems : PolicyCounts(AiuItems[i]))
           => summary_a.aiu_base = summary_a.total_direct
        /\ (\A i \in PlainItems : ~PolicyCounts(AiuItems[i]))
           => summary_a.aiu_base = R(0)

\* the sum of one field of items_totals over the items at the positions
RECURSIVE SumItemField(_, _)
SumItemField(field, positions) ==
    IF positions = {} THEN R(0)
    ELSE LET i == CHOOSE x \in positions : TRUE
         IN RAdd(DictGet(summary_a.items_totals, AiuItems[i].item_id)[field],
                 SumItemField(field, positions \ {i}))
CountedItems == {i \in 1..Len(AiuItems) : PolicyCounts(AiuItems[i])}

\* C14: the items that count toward the markup base are exactly those the
\* selected policy admits: policy 1, eligible and neither customer-provided
\* nor pass-through; policy 2, neither customer-provided nor pass-through;
\* policy 3, policy 1 and a category not flagged is_equipment; an unknown
\* rule as policy 1; a percentage item never counts.  Both resolvers sum
\* over exactly these items.
C14_PolicyDecidesCountedItems ==
    (pc = "done" /\ scenario_a.aiu_enabled) =>
        /\ aiu_base = SumItemField("base_line", CountedItems)
        /\ (RIsPos(SumItemField("total_line", PlainItems))
            /\ ~RIsZero(summary_a.total_direct))
           => summary_a.aiu_base
                 = RMul(summary_a.total_direct,
                        RDiv(SumItemField("total_line", CountedItems),
                             SumItemField("total_line", PlainItems)))
\* policy 2 with an item that is not markup-eligible (it counts) and a
\* customer-provided item (it does not)
C14_Witness ==
    /\ pc = "done"
    /\ scenario_a.aiu_enabled
    /\ scenario_a.aiu_base_rule = DIRECT_COSTS_EXCL_CLIENT_PROVIDED
    /\ Len(AiuItems) = 2
    /\ ~AiuItems[1].aiu_applicable /\ ~AiuItems[1].is_percentage_item
    /\ CountedItems = {1}
    /\ aiu_base = R(100)
    /\ RIsPos(summary_a.aiu_base)
    /\ RLess(summary_a.aiu_base, summary_a.total_direct)

PctOf(pct, base) == RMul(base, RDiv(R(pct), R(100)))
\* the three module bases are the scenario's percentages of base
ModulesOn(base) ==
    /\ summary_a.transport_base = PctOf(scenario_a.transport_pct, base)
    /\ summary_a.policies_base = PctOf(scenario_a.policies_pct, base)
    /\ summary_a.engineering_base = PctOf(scenario_a.engineering_pct, base)

\* C16: the transport, policies and engineering percentages are applied to
\* the direct-cost base under 'subtotal base', to the direct-cost total under
\* 'subtotal total', and to the markup (AIU) base under the 'markup base'
\* rule (the base of either resolver is accepted).
C16_ModuleBaseFollowsRule ==
    pc = "done" =>
        /\ scenario_a.pct_base_rule = SUBTOTAL_BASE
           => ModulesOn(summary_a.direct_cost_base)
        /\ scenario_a.pct_base_rule = SUBTOTAL_TOTAL
           => ModulesOn(summary_a.direct_cost_total)
        /\ scenario_a.pct_base_rule = BASE_AIU
           => ModulesOn(summary_a.aiu_base) \/ ModulesOn(aiu_base)

\* calculate_scenario_summary left by an exception: the error value reaches
\* every sum the failing item feeds
Raised(summary) ==
    \/ IsErr(summary.direct_cost_base)
    \/ IsErr(summary.total_direct)
    \/ IsErr(summary.grand_total)

\* C17: calculate_scenario_summary never raises and never divides by zero,
\* for every scenario: without items, with all percentages zero, with the
\* markup disabled, and with any item or default VAT rate (zero or negative
\* included) under either pricing convention.
C17_SummaryNeverRaises ==
    pc # "input" => ~Raised(summary_a) /\ ~Raised(summary_b)

\* the entry of a percentage item computed on base
PctEntryOn(item, base) ==
    LET value == calculate_percentage_item_value(item, base)
        entry == DictGet(summary_a.items_totals, item.item_id)
    IN /\ entry.base_line = value.base_line
       /\ entry.vat_line = value.vat_line
       /\ entry.total_line = value.total_line

\* C18: for an item flagged is_percentage_item calculate_item_totals returns
\* all six values 0, and the summary of calculate_scenario_summary carries
\* the item's value (pct_rate % of its base: the direct-cost base, the
\* direct-cost total or the markup base) in the item's entry of items_totals.
C18_PercentageItemsTwoPhase ==
    pc # "input" =>
        \A i \in 1..Len(scenario_a.items) :
            LET item == scenario_a.items[i] IN
            item.is_percentage_item =>
                /\ calculate_item_totals(item, scenario_a) = ZeroItemTotals
                /\ DictHas(summary_a.items_totals, item.item_id)
                /\ \/ PctEntryOn(item, summary_a.direct_cost_base)
                   \/ PctEntryOn(item, summary_a.direct_cost_total)
                   \/ PctEntryOn(item, summary_a.aiu_base)

\* ------------------------------------------------ claims, narrative analysis
\* the log of the latest analyze_capex_diff invocation: the invocation
\* itself, then the calls it made
LastCalls ==
    LET last == CHOOSE i \in Invocations(calls) : \A j \in Invocations(calls) : j <= i
    IN SubSeq(calls, last, Len(calls))
Fns(log) == {log[i].fn : i \in 1..Len(log)}
Analyzed == pc = "summarized" /\ Invocations(calls) # {}
Forced == LastCalls[1].arg.force_regenerate
\* what call_gemini_analysis returned or raised in the latest invocation
Generated ==
    LET i == CHOOSE i \in 1..Len(LastCalls) : LastCalls[i].fn = "call_gemini_analysis"
    IN LastCalls[i].ret
CalledGemini == "call_gemini_analysis" \in Fns(LastCalls)
DiffHash == get_diff_pack_hash(diff_pack)

\* C19: with force_regenerate = True analyze_capex_diff never reads the
\* cache; it calls the narrative generator even when an analysis is cached
\* under the DiffPack hash, and on success it saves the new analysis, which
\* a completed write leaves as the cache entry of that hash.
C19_ForceBypassesCacheRead ==
    (Analyzed /\ Forced) =>
        /\ "get_cached_analysis" \notin Fns(LastCalls)
        /\ CalledGemini
        /\ ~IsRaised(Generated) =>
            /\ analysis = Generated
            /\ Len(LastCalls) = 3
            /\ LastCalls[3].fn = "save_cached_analysis"
            /\ LastCalls[3].arg = Generated
            /\ LastCalls[3].ret = "ok" =>
                /\ DictHas(cache, DiffHash)
                /\ DictGet(cache, DiffHash).analysis = Generated
                /\ DictGet(cache, DiffHash).hash = DiffHash

\* the first click generated an analysis and cached it, and the forced
\* click after it generated another one and left that one in the cache
C19_Witness ==
    /\ Analyzed /\ Forced
    /\ Len(calls) = 7
    /\ ~calls[1].arg.force_regenerate
    /\ calls[2].fn = "get_cached_analysis" /\ calls[2].ret = None
    /\ calls[4].fn = "save_cached_analysis" /\ calls[4].ret = "ok"
    /\ calls[5].fn = "analyze_capex_diff"
    /\ ~IsRaised(Generated)
    /\ Generated # calls[4].arg
    /\ calls[7].ret = "ok"
    /\ DictGet(cache, DiffHash).analysis = Generated
    /\ DictGet(cache, DiffHash).timestamp = 2

\* C20: a failure of the narrative call (package missing, no model
\* available, network error, unparsable response) is caught inside
\* analyze_capex_diff: it returns a payload with 'error', holding the kind
\* and the message of the failure, and 'message'; the DiffPack is the one
\* generate_diff_pack computes from the scenarios and summaries.
C20_NarrativeFailureIsPayload ==
    (Analyzed /\ CalledGemini /\ IsRaised(Generated)) =>
        /\ ~IsRaised(analysis)
        /\ {"error", "message"} \subseteq DOMAIN analysis
        /\ analysis.error.kind = Generated.raised
        /\ analysis.error.message = Generated.message
        /\ diff_pack = generate_diff_pack(scenario_a, scenario_b, summary_a, summary_b)
        /\ diff_pack.top_items # << >>

\* the reply could not be parsed: a payload of kind ValueError, with the
\* DiffPack of the matched pair computed
C20_Witness ==
    /\ Analyzed /\ CalledGemini /\ IsRaised(Generated)
    /\ analysis.error.kind = "ValueError"
    /\ analysis.message = "Error al generar analisis IA"
    /\ Len(diff_pack.top_items) = 1

\* the position of the latest analyze_capex_diff invocation in the call log
LastInvocation ==
    CHOOSE i \in Invocations(calls) : \A j \in Invocations(calls) : j <= i
\* the writes of <hash>.json before the latest invocation: the saves whose
\* open did not fail
EarlierWrites ==
    {i \in 1..(LastInvocation - 1) :
        calls[i].fn = "save_cached_analysis" /\ calls[i].ret # "open"}
LatestWrite == CHOOSE i \in EarlierWrites : \A j \in EarlierWrites : j <= i

\* C21: once analyze_capex_diff has returned a generated analysis and its
\* cache write succeeded, a later call with the same scenarios and summaries
\* and force_regenerate = False returns the stored analysis without calling
\* the narrative generator; the stored analysis is the one of the latest
\* write, so a forced regeneration replaces it.
C21_CachedAnalysisReturned ==
    (Analyzed /\ ~Forced /\ EarlierWrites # {}) =>
        (calls[LatestWrite].ret = "ok" =>
            /\ analysis = calls[LatestWrite].arg
            /\ ~CalledGemini
            /\ LastCalls = <<calls[LastInvocation],
                             Call("get_cached_analysis", None, calls[LatestWrite].arg)>>
            /\ DictGet(cache, DiffHash).analysis = analysis)

\* the first click generated and stored an analysis; the second, unforced,
\* returned it with the service unavailable
C21_Witness ==
    /\ Analyzed /\ ~Forced
    /\ Len(calls) = 6
    /\ calls[2].fn = "get_cached_analysis" /\ calls[2].ret = None
    /\ calls[3].fn = "call_gemini_analysis"
    /\ calls[4].fn = "save_cached_analysis" /\ calls[4].ret = "ok"
    /\ LastInvocation = 5
    /\ calls[6] = Call("get_cached_analysis", None, calls[4].arg)
    /\ analysis = calls[4].arg
    /\ "executive_summary" \in DOMAIN analysis

\* ------------------------------------------------ claims, content hash
\* dict with its entries inserted in the reverse order
Reversed(dict) == [i \in 1..Len(dict) |-> dict[Len(dict) + 1 - i]]
\* dict with its entries inserted k places later, cyclically
Rotated(dict, k) == [i \in 1..Len(dict) |-> dict[((i + k - 1) % Len(dict)) + 1]]
\* the same dict, other insertion orders
Reorderings(dict) == {Reversed(dict), Rotated(dict, 1), Rotated(dict, 3)}

\* an equal summary with the entries of items_totals inserted in another
\* order
Reinserted(summary, reorder) ==
    [summary EXCEPT !.items_totals =
        IF reorder = "reversed" THEN Reversed(@) ELSE Rotated(@, 1)]

\* C22: generate_diff_pack run again on equal snapshots (the same
\* scenarios, the summaries with the entries of items_totals inserted in
\* another order) returns an equal DiffPack with an equal hash, and the
\* hash of a DiffPack does not depend on the insertion order of its keys.
C22_DiffPackContentAddressable ==
    pc = "done" =>
        \A diff_hash \in {get_diff_pack_hash(diff_pack)} :
            /\ \A reorder \in {"reversed", "rotated"} :
                 \A again \in {generate_diff_pack(scenario_a, scenario_b,
                                                  Reinserted(summary_a, reorder),
                                                  Reinserted(summary_b, reorder))} :
                    /\ again = diff_pack
                    /\ get_diff_pack_hash(again) = diff_hash
            /\ \A totals \in Reorderings(diff_pack.totals) :
                 get_diff_pack_hash([diff_pack EXCEPT !.totals = totals]) = diff_hash

\* a DiffPack of summaries with two items each, whose totals in reverse
\* insertion order are another JSON text
C22_Witness ==
    /\ pc = "done"
    /\ Len(summary_a.items_totals) = 2 /\ Len(summary_b.items_totals) = 2
    /\ Reversed(summary_a.items_totals) # summary_a.items_totals
    /\ Reversed(diff_pack.totals) # diff_pack.totals
    /\ json_dumps_sorted([diff_pack EXCEPT !.totals = Reversed(@)])
           = json_dumps_sorted(diff_pack)
    /\ diff_pack.by_category # << >>

\* ------------------------------------------------ editing specification
\* render_edit_scenario, the item table: the "add item" button and the
\* "delete selected" button, pressed on a scenario of the open project
MaxEditItems == 3

\* for i, item in enumerate(scenario.items): item.order = i
enumerate_order_skipped(items) == items

enumerate_order(items) == [i \in 1..Len(items) |-> [items[i] EXCEPT !.order = i - 1]]

\* sorted(scenario.items, key=lambda x: x.order), a stable sort
RECURSIVE InsertByOrder(_, _)
InsertByOrder(sorted_items, item) ==
    IF sorted_items = << >> THEN <<item>>
    ELSE IF sorted_items[Len(sorted_items)].order <= item.order
         THEN Append(sorted_items, item)
         ELSE Append(InsertByOrder(SubSeq(sorted_items, 1, Len(sorted_items) - 1), item),
                     sorted_items[Len(sorted_items)])

RECURSIVE SortByOrder(_, _)
SortByOrder(items, i) ==
    IF i = 0 THEN << >> ELSE InsertByOrder(SortByOrder(items, i - 1), items[i])

Todas == "Todas"

RECURSIVE category_label(_, _, _)
category_label(categories, category_id, i) ==
    IF i > Len(categories) THEN ""
    ELSE IF categories[i].category_id = category_id THEN categories[i].label
         ELSE category_label(categories, category_id, i + 1)

\* the rows of the editor: items_to_dataframe(sort_by="order"), then the
\* category filter
editable_rows(scenario, category_filter) ==
    LET Shown(item) ==
            \/ category_filter = Todas
            \/ category_label(scenario.categories, item.category_id, 1) = category_filter
    IN SelectSeq(SortByOrder(scenario.items, Len(scenario.items)), Shown)

NewItemName == <<"N", "u", "e", "v", "o">>

\* the "add item" button: a new Item with order=len(scenario.items) appended
add_item(scenario, item_id) ==
    LET category_id == IF scenario.categories # << >>
                       THEN scenario.categories[1].category_id ELSE ""
        new_item == [Item(item_id, NoneStr, category_id, NewItemName, 0, 0, FALSE, 19)
                        EXCEPT !.order = Len(scenario.items)]
    IN [scenario EXCEPT !.items = Append(@, new_item)]

\* the synchronisation of the editor's rows back to scenario.items, reached
\* when no button ended the run: the rows not ticked are kept, in row order
sync_rows(scenario, rows, selected) ==
    LET Kept(item) == item.item_id \notin selected
    IN [scenario EXCEPT !.items = enumerate_order(SelectSeq(rows, Kept))]

\* the "delete selected" button with the rows ticked in the editor
delete_selected(scenario, rows, selected) ==
    LET Remaining(item) == item.item_id \notin selected
    IN IF selected # {}
       THEN [scenario EXCEPT !.items = enumerate_order(SelectSeq(@, Remaining))]
       ELSE sync_rows(scenario, rows, selected)

EditCategories == <<Category("c1", "Equipos", TRUE), Category("c2", "Servicios", FALSE)>>
EditFilters == {Todas, "Equipos", "Servicios"}
\* uuid4 values
ItemIds == 1..(MaxEditItems + 2)

IdsOf(items) == {items[i].item_id : i \in 1..Len(items)}

AddItem ==
    /\ pc = "edit"
    /\ Len(scenario_a.items) < MaxEditItems
    /\ \E item_id \in ItemIds \ IdsOf(scenario_a.items) :
         scenario_a' = add_item(scenario_a, item_id)
    /\ UNCHANGED <<scenario_b, summary_a, summary_b, matches, diff_pack, item_totals, aiu_base, cache, analysis, calls, library, comparison, pc>>

DeleteSelected ==
    /\ pc = "edit"
    /\ \E category_filter \in EditFilters :
         \E rows \in {editable_rows(scenario_a, category_filter)} :
           \E selected \in SUBSET IdsOf(rows) :
             scenario_a' = delete_selected(scenario_a, rows, selected)
    /\ UNCHANGED <<scenario_b, summary_a, summary_b, matches, diff_pack, item_totals, aiu_base, cache, analysis, calls, library, comparison, pc>>

\* a stored scenario whose items carry 0..N-1 in list position
EditItem(item_id, category_id) ==
    [Item(item_id, NoneStr, category_id, NameA, 1, 100, FALSE, 19) EXCEPT !.order = item_id - 1]

InitEdit ==
    /\ \E n \in 0..2 :
         \E category_ids \in [1..n -> {"c1", "c2"}] :
           scenario_a = Scenario(EditCategories,
                                 [i \in 1..n |-> EditItem(i, category_ids[i])], 19)
    /\ scenario_b = NotRun
    /\ summary_a = NotRun /\ summary_b = NotRun
    /\ matches = NotRun /\ diff_pack = NotRun /\ item_totals = NotRun
    /\ aiu_base = NotRun /\ cache = NotRun /\ analysis = NotRun /\ calls = NotRun
    /\ library = NotRun /\ comparison = NotRun
    /\ pc = "edit"

NextEdit == AddItem \/ DeleteSelected

SpecEdit == InitEdit /\ [][NextEdit]_vars

\* ------------------------------------------------ claims, item order
\* C23: from a scenario whose items carry order 0..N-1 in list position,
\* after any sequence of "add item" and "delete selected" presses the
\* items of the scenario carry order 0..N-1 in list position: every value
\* once, no gap
C23_OrderDense ==
    pc = "edit" =>
        \A i \in 1..Len(scenario_a.items) : scenario_a.items[i].order = i - 1

\* the first stored item was deleted, the second renumbered, one was added
C23_Witness ==
    /\ pc = "edit"
    /\ Len(scenario_a.items) = 2
    /\ scenario_a.items[1].item_id = 2 /\ scenario_a.items[1].order = 0
    /\ scenario_a.items[1].name = NameA
    /\ scenario_a.items[2].name = NewItemName /\ scenario_a.items[2].order = 1

\* ------------------------------------------------- models.py (later model)
UNIT == "UNIT"
PER_KWP == "PER_KWP"

AIUFactors(admin_factor, imprev_factor, util_factor) ==
    [admin_factor |-> admin_factor, imprev_factor |-> imprev_factor,
     util_factor |-> util_factor]

\* ScenarioItem(...) with the dataclass defaults for every field not given
ScenarioItem(item_id, item_code, name, category_code, qty, price, client_pays) ==
    [item_id |-> item_id, item_code |-> item_code, name |-> name,
     category_code |-> category_code, qty |-> qty, pricing_mode |-> UNIT,
     price |-> price, vat_rate |-> 19, price_includes_vat |-> FALSE,
     client_pays |-> client_pays, aiu_factors |-> AIUFactors(100, 100, 100)]

AIUConfig(enabled, admin_pct, imprev_pct, util_pct) ==
    [enabled |-> enabled, admin_pct |-> admin_pct, imprev_pct |-> imprev_pct,
     util_pct |-> util_pct]

VATConfig(vat_on_utilidad_enabled, vat_rate_utilidad) ==
    [vat_on_utilidad_enabled |-> vat_on_utilidad_enabled,
     vat_rate_utilidad |-> vat_rate_utilidad]

\* models.Scenario
ModelsScenario(dc_power_mwp, aiu_config, vat_config, items) ==
    [variables |-> [dc_power_mwp |-> dc_power_mwp], aiu_config |-> aiu_config,
     vat_config |-> vat_config, items |-> items]

\* ------------------------------------------------------- library_service.py
\* LIBRARY_CATEGORIES_FILE: absent, unreadable (IOError, JSONDecodeError) or
\* holding a list of categories
NoFile == [exists |-> FALSE, readable |-> FALSE, data |-> << >>]
UnreadableFile == [exists |-> TRUE, readable |-> FALSE, data |-> << >>]
JsonFile(data) == [exists |-> TRUE, readable |-> TRUE, data |-> data]

LibraryCategory(category_code, name_es) ==
    [category_code |-> category_code, name_es |-> name_es]

default_categories ==
    << LibraryCategory("PV-MOD", "Modulos"),
       LibraryCategory("PV-INV", "Inversores"),
       LibraryCategory("PV-ESS", "Almacenamiento (BESS)"),
       LibraryCategory("PV-SBOS", "SBOS (Estructuras / Trackers)"),
       LibraryCategory("PV-EBOS", "EBOS (Electrico)"),
       LibraryCategory("PV-CIV", "Obra civil y preparacion de sitio"),
       LibraryCategory("PV-INST", "Instalacion y construccion"),
       LibraryCategory("PV-SUB", "Subestacion e Interconexion"),
       LibraryCategory("PV-SCADA", "SCADA / Comunicaciones / Seguridad"),
       LibraryCategory("PV-ENG", "Ingenieria, permisos y estudios"),
       LibraryCategory("PV-DEV", "Desarrollo / Administracion del proyecto"),
       LibraryCategory("PV-OTH", "Otros / Contingencias"),
       LibraryCategory("LAND", "Tierra / Predios") >>

\* file is LIBRARY_CATEGORIES_FILE; the categories returned and the file left
load_library_categories(file) ==
    IF ~file.exists
    THEN [categories |-> default_categories, file |-> JsonFile(default_categories)]
    ELSE IF ~file.readable THEN [categories |-> << >>, file |-> file]
    ELSE [categories |-> file.data, file |-> file]

RECURSIVE FirstCategory(_, _, _)
FirstCategory(categories, category_code, i) ==
    IF i > Len(categories) THEN None
    ELSE IF categories[i].category_code = category_code THEN categories[i]
         ELSE FirstCategory(categories, category_code, i + 1)

get_category_by_code(category_code, file) ==
    LET loaded == load_library_categories(file)
    IN [category |-> FirstCategory(loaded.categories, category_code, 1),
        file |-> loaded.file]

\* -------------------------------------------------------- capex_engine.py
calculate_item_total(item, scenario_kwp) ==
    LET total == IF item.pricing_mode = PER_KWP
                 THEN RMul(scenario_kwp, R(item.price))
                 ELSE RMul(R(item.qty), R(item.price))
    IN IF item.price_includes_vat
       THEN IF item.vat_rate > 0
            THEN LET base_total == RDiv(total, RAdd(R(1), RDiv(R(item.vat_rate), R(100))))
                 IN [base |-> base_total, vat |-> RSub(total, base_total), total |-> total]
            ELSE [base |-> total, vat |-> R(0), total |-> total]
       ELSE LET vat_total == RMul(total, RDiv(R(item.vat_rate), R(100)))
            IN [base |-> total, vat |-> vat_total, total |-> RAdd(total, vat_total)]

RECURSIVE ItemTotalsLoop(_, _, _, _)
ItemTotalsLoop(items, scenario_kwp, i, item_totals_) ==
    IF i > Len(items) THEN item_totals_
    ELSE ItemTotalsLoop(items, scenario_kwp, i + 1,
            DictSet(item_totals_, items[i].item_id,
                    calculate_item_total(items[i], scenario_kwp)))

\* sum(item_totals[item.item_id][field] for item in items)
RECURSIVE SumOver(_, _, _, _)
SumOver(items, item_totals_, field, i) ==
    IF i = 0 THEN R(0)
    ELSE RAdd(SumOver(items, item_totals_, field, i - 1),
              DictGet(item_totals_, items[i].item_id)[field])

\* the three amounts taken whether or not the markup is enabled
aiu_amounts_always(aiu_config, direct_epc_total) ==
    [aiu_admin |-> RMul(direct_epc_total, RDiv(R(aiu_config.admin_pct), R(100))),
     aiu_imprev |-> RMul(direct_epc_total, RDiv(R(aiu_config.imprev_pct), R(100))),
     aiu_util |-> RMul(direct_epc_total, RDiv(R(aiu_config.util_pct), R(100)))]

aiu_amounts(aiu_config, direct_epc_total) ==
    IF aiu_config.enabled
    THEN LET aiu_base_ == direct_epc_total
         IN [aiu_admin |-> RMul(aiu_base_, RDiv(R(aiu_config.admin_pct), R(100))),
             aiu_imprev |-> RMul(aiu_base_, RDiv(R(aiu_config.imprev_pct), R(100))),
             aiu_util |-> RMul(aiu_base_, RDiv(R(aiu_config.util_pct), R(100)))]
    ELSE [aiu_admin |-> R(0), aiu_imprev |-> R(0), aiu_util |-> R(0)]

\* the base, vat and total of the given items, summed
SumsOf(items, item_totals_) ==
    [base |-> SumOver(items, item_totals_, "base", Len(items)),
     vat |-> SumOver(items, item_totals_, "vat", Len(items)),
     total |-> SumOver(items, item_totals_, "total", Len(items))]

\* the returned dict, from the EPC and project base and vat
totals_dict(item_totals_, direct, client, base_a, aiu, aiu_total, vat_on_utilidad, epc_base, epc_vat) ==
    [item_totals |-> item_totals_,
     direct_epc_base |-> direct.base, direct_epc_vat |-> direct.vat,
     direct_epc_total |-> direct.total,
     client_base |-> client.base, client_vat |-> client.vat,
     client_total |-> client.total,
     aiu_base_a |-> base_a, aiu_base_i |-> base_a, aiu_base_u |-> base_a,
     aiu_admin |-> aiu.aiu_admin, aiu_imprev |-> aiu.aiu_imprev,
     aiu_util |-> aiu.aiu_util, aiu_total |-> aiu_total,
     vat_on_utilidad |-> vat_on_utilidad,
     epc_base |-> epc_base, epc_vat |-> epc_vat,
     epc_total |-> RAdd(epc_base, epc_vat),
     project_base |-> RAdd(epc_base, client.base),
     project_vat |-> RAdd(epc_vat, client.vat),
     project_total |-> RAdd(RAdd(epc_base, client.base), RAdd(epc_vat, client.vat))]

\* from the markup amounts on: the VAT on utilidad and the EPC totals
totals_with_aiu(scenario, item_totals_, direct, client, aiu) ==
    totals_dict(item_totals_, direct, client,
        IF scenario.aiu_config.enabled THEN direct.total ELSE R(0),
        aiu,
        Sum3(aiu.aiu_admin, aiu.aiu_imprev, aiu.aiu_util),
        IF scenario.vat_config.vat_on_utilidad_enabled
        THEN RMul(aiu.aiu_util, RDiv(R(scenario.vat_config.vat_rate_utilidad), R(100)))
        ELSE R(0),
        RAdd(direct.base, Sum3(aiu.aiu_admin, aiu.aiu_imprev, aiu.aiu_util)),
        RAdd(direct.vat,
             IF scenario.vat_config.vat_on_utilidad_enabled
             THEN RMul(aiu.aiu_util, RDiv(R(scenario.vat_config.vat_rate_utilidad), R(100)))
             ELSE R(0)))

\* from the sums on: the markup on the EPC direct total
totals_with_sums(scenario, item_totals_, direct, client) ==
    totals_with_aiu(scenario, item_totals_, direct, client,
                    aiu_amounts(scenario.aiu_config, direct.total))

\* from the item totals on: the sums of the EPC items and of the client's
totals_with_items(scenario, item_totals_) ==
    LET NotClientPays(item) == ~item.client_pays
        ClientPays(item) == item.client_pays
    IN totals_with_sums(scenario, item_totals_,
           SumsOf(SelectSeq(scenario.items, NotClientPays), item_totals_),
           SumsOf(SelectSeq(scenario.items, ClientPays), item_totals_))

calculate_scenario_totals(scenario) ==
    totals_with_items(scenario,
        ItemTotalsLoop(scenario.items,
                       RMul(R(scenario.variables.dc_power_mwp), R(1000)), 1, EmptyDict))

UNCATEGORIZED == "UNCATEGORIZED"
ZeroTotal == [base |-> R(0), vat |-> R(0), total |-> R(0)]

\* the loop of aggregate_by_category; file is LIBRARY_CATEGORIES_FILE, read
\* by get_category_by_code at every item
RECURSIVE EngineCategoryLoop(_, _, _, _, _)
EngineCategoryLoop(items, item_totals_, i, category_totals, file) ==
    IF i > Len(items) THEN [category_totals |-> category_totals, file |-> file]
    ELSE LET item == items[i]
             category_code == IF Truthy(item.category_code)
                              THEN item.category_code ELSE UNCATEGORIZED
             found == get_category_by_code(category_code, file)
             name_es == IF found.category # None
                              THEN found.category.name_es ELSE category_code
             entry == DictGetOr(category_totals, category_code,
                          [base |-> R(0), vat |-> R(0), total |-> R(0),
                           name |-> name_es])
             item_total == DictGetOr(item_totals_, item.item_id, ZeroTotal)
         IN EngineCategoryLoop(items, item_totals_, i + 1,
                DictSet(category_totals, category_code,
                    [entry EXCEPT !.base = RAdd(@, item_total.base),
                                  !.vat = RAdd(@, item_total.vat),
                                  !.total = RAdd(@, item_total.total)]),
                found.file)

\* capex_engine.aggregate_by_category
engine_aggregate_by_category(scenario, totals, file) ==
    EngineCategoryLoop(scenario.items, totals.item_totals, 1, EmptyDict, file)

\* ------------------------------------------------------ compare_service.py
\* {item.item_code.lower(): item.item_id for item in items if item.item_code}
RECURSIVE IndexByCode(_, _, _)
IndexByCode(items, i, index) ==
    IF i > Len(items) THEN index
    ELSE IndexByCode(items, i + 1,
            IF Truthy(items[i].item_code)
            THEN DictSet(index, LowerChar(items[i].item_code), items[i].item_id)
            ELSE index)

\* {item.name.lower(): item.item_id for item in items}
RECURSIVE IndexByName(_, _, _)
IndexByName(items, i, index) ==
    IF i > Len(items) THEN index
    ELSE IndexByName(items, i + 1, DictSet(index, Lower(items[i].name), items[i].item_id))

\* the orders in which a set can be iterated
Orderings(set) ==
    {order \in [1..Cardinality(set) -> set] :
        \A i, j \in 1..Cardinality(set) : order[i] = order[j] => i = j}

\* items_a.get(key) of a key the index lacks: None, falsy as no item_id is
NoItemId == 0

\* for key in all_keys: matches[key] = (items_a.get(key), items_b.get(key))
MatchesOf(items_a, items_b, all_keys) ==
    [i \in 1..Len(all_keys) |->
        [k |-> all_keys[i],
         v |-> <<DictGetOr(items_a, all_keys[i], NoItemId),
                 DictGetOr(items_b, all_keys[i], NoItemId)>>]]

all_codes(scenario_a_, scenario_b_) ==
    DictKeys(IndexByCode(scenario_a_.items, 1, EmptyDict))
        \cup DictKeys(IndexByCode(scenario_b_.items, 1, EmptyDict))

\* codes is all_codes in the order the set is iterated
match_items_by_code(scenario_a_, scenario_b_, codes) ==
    MatchesOf(IndexByCode(scenario_a_.items, 1, EmptyDict),
              IndexByCode(scenario_b_.items, 1, EmptyDict), codes)

all_names(scenario_a_, scenario_b_) ==
    DictKeys(IndexByName(scenario_a_.items, 1, EmptyDict))
        \cup DictKeys(IndexByName(scenario_b_.items, 1, EmptyDict))

match_items_by_name(scenario_a_, scenario_b_, names) ==
    MatchesOf(IndexByName(scenario_a_.items, 1, EmptyDict),
              IndexByName(scenario_b_.items, 1, EmptyDict), names)

\* next((item for item in items if item.item_id == item_id), None)
RECURSIVE FirstItem(_, _, _)
FirstItem(items, item_id, i) ==
    IF i > Len(items) THEN None
    ELSE IF items[i].item_id = item_id THEN items[i]
         ELSE FirstItem(items, item_id, i + 1)

\* (delta / total_a * 100) if total_a > 0 else (100 if total_b > 0 else 0)
compare_delta_pct(total_a, total_b) ==
    IF RIsPos(total_a) THEN RMul(RDiv(RSub(total_b, total_a), total_a), R(100))
    ELSE IF RIsPos(total_b) THEN R(100) ELSE R(0)

item_row(scenario_a_, scenario_b_, totals_a, totals_b, code, ids) ==
    LET item_id_a == ids[1]
        item_id_b == ids[2]
        item_a == IF item_id_a # NoItemId THEN FirstItem(scenario_a_.items, item_id_a, 1) ELSE None
        item_b == IF item_id_b # NoItemId THEN FirstItem(scenario_b_.items, item_id_b, 1) ELSE None
        total_a == IF item_id_a # NoItemId
                   THEN DictGetOr(totals_a.item_totals, item_id_a, ZeroTotal).total ELSE R(0)
        total_b == IF item_id_b # NoItemId
                   THEN DictGetOr(totals_b.item_totals, item_id_b, ZeroTotal).total ELSE R(0)
    IN [code |-> code,
        name_a |-> IF item_a # None THEN item_a.name ELSE << >>,
        name_b |-> IF item_b # None THEN item_b.name ELSE << >>,
        total_a |-> total_a, total_b |-> total_b,
        delta |-> RSub(total_b, total_a),
        delta_pct |-> compare_delta_pct(total_a, total_b)]

\* the rows of the by_item comparison, from the pairs of the given matches
item_rows(scenario_a_, scenario_b_, totals_a, totals_b, item_matches) ==
    [i \in 1..Len(item_matches) |->
        item_row(scenario_a_, scenario_b_, totals_a, totals_b,
                 item_matches[i].k, item_matches[i].v)]

engine_category_row(cat_totals_a, cat_totals_b, cat_code) ==
    LET cat_a == DictGetOr(cat_totals_a, cat_code, [total |-> R(0), name |-> ""])
        cat_b == DictGetOr(cat_totals_b, cat_code, [total |-> R(0), name |-> ""])
    IN [category_code |-> cat_code,
        category_name |-> cat_b.name,
        total_a |-> cat_a.total, total_b |-> cat_b.total,
        delta |-> RSub(cat_b.total, cat_a.total),
        delta_pct |-> compare_delta_pct(cat_a.total, cat_b.total)]

\* (b - a) / a * 100 if a > 0 else 0
overall_delta_pct(a, b) ==
    IF RIsPos(a) THEN RMul(RDiv(RSub(b, a), a), R(100)) ELSE R(0)

all_categories(cat_totals_a, cat_totals_b) == DictKeys(cat_totals_a) \cup DictKeys(cat_totals_b)

\* codes and categories are all_codes and all_categories in the order the
\* sets are iterated; file is LIBRARY_CATEGORIES_FILE before the call
compare_scenarios(scenario_a_, scenario_b_, codes, categories, file) ==
    LET totals_a == calculate_scenario_totals(scenario_a_)
        totals_b == calculate_scenario_totals(scenario_b_)
        matches_by_code == match_items_by_code(scenario_a_, scenario_b_, codes)
        agg_a == engine_aggregate_by_category(scenario_a_, totals_a, file)
        agg_b == engine_aggregate_by_category(scenario_b_, totals_b, agg_a.file)
    IN [file |-> agg_b.file,
        result |->
          [overall |->
             [epc_total_a |-> totals_a.epc_total, epc_total_b |-> totals_b.epc_total,
              epc_delta |-> RSub(totals_b.epc_total, totals_a.epc_total),
              epc_delta_pct |-> overall_delta_pct(totals_a.epc_total, totals_b.epc_total),
              project_total_a |-> totals_a.project_total,
              project_total_b |-> totals_b.project_total,
              project_delta |-> RSub(totals_b.project_total, totals_a.project_total),
              project_delta_pct |->
                  overall_delta_pct(totals_a.project_total, totals_b.project_total)],
           by_category |->
             [i \in 1..Len(categories) |->
                 engine_category_row(agg_a.category_totals, agg_b.category_totals,
                                     categories[i])],
           by_item |-> item_rows(scenario_a_, scenario_b_, totals_a, totals_b,
                                 matches_by_code)]]

\* ------------------------------------------------ comparison specification
\* compare_scenarios on two stored scenarios of the later model
MaxCompareItems == 2

DefaultFactors == AIUFactors(100, 100, 100)
ScaledFactors == AIUFactors(50, 0, 25)

\* (item_code, name, category_code, client_pays, aiu_factors)
CompareKindsA ==
    { <<"A", NameA, "PV-MOD", FALSE, DefaultFactors>>,
      <<"", NameA, "PV-MOD", FALSE, ScaledFactors>>,
      <<"a", NameAB, "", TRUE, ScaledFactors>> }
CompareKindsB ==
    { <<"a", NameA, "PV-MOD", FALSE, DefaultFactors>>,
      <<"", NameA, "ZZ", FALSE, DefaultFactors>> }

CompareItems(kinds, base, price) ==
    [i \in 1..Len(kinds) |->
        [ScenarioItem(base + i, kinds[i][1], kinds[i][2], kinds[i][3], 1, price, kinds[i][4])
            EXCEPT !.aiu_factors = kinds[i][5]]]

CompareKindLists(kinds) ==
    UNION {[1..n -> kinds] : n \in 0..MaxCompareItems}

AiuConfigs == {AIUConfig(FALSE, 10, 5, 5), AIUConfig(TRUE, 10, 5, 5)}

\* the file absent, unreadable, or holding the default categories
LibraryFiles == {NoFile, UnreadableFile, JsonFile(default_categories)}

compared_categories(scenario_a_, scenario_b_, file) ==
    LET agg_a == engine_aggregate_by_category(scenario_a_,
                     calculate_scenario_totals(scenario_a_), file)
        agg_b == engine_aggregate_by_category(scenario_b_,
                     calculate_scenario_totals(scenario_b_), agg_a.file)
    IN all_categories(agg_a.category_totals, agg_b.category_totals)

CompareScenarios ==
    /\ pc = "input"
    /\ \E codes \in Orderings(all_codes(scenario_a, scenario_b)) :
         \E categories \in Orderings(compared_categories(scenario_a, scenario_b, library)) :
           \E r \in {compare_scenarios(scenario_a, scenario_b, codes, categories, library)} :
             /\ comparison' = r.result
             /\ library' = r.file
    /\ pc' = "compared"
    /\ UNCHANGED <<scenario_a, scenario_b, summary_a, summary_b, matches, diff_pack, item_totals, aiu_base, cache, analysis, calls>>

InitCompare ==
    /\ \E kinds \in CompareKindLists(CompareKindsA), aiu_config \in AiuConfigs :
         scenario_a = ModelsScenario(0, aiu_config, VATConfig(TRUE, 19),
                                     CompareItems(kinds, 100, 100))
    /\ \E kinds \in CompareKindLists(CompareKindsB) :
         scenario_b = ModelsScenario(0, AIUConfig(FALSE, 0, 0, 0), VATConfig(FALSE, 19),
                                     CompareItems(kinds, 200, 120))
    /\ library \in LibraryFiles
    /\ summary_a = NotRun /\ summary_b = NotRun
    /\ matches = NotRun /\ diff_pack = NotRun /\ item_totals = NotRun
    /\ aiu_base = NotRun /\ cache = NotRun /\ analysis = NotRun /\ calls = NotRun
    /\ comparison = NotRun
    /\ pc = "input"

NextCompare == CompareScenarios

SpecCompare == InitCompare /\ [][NextCompare]_vars

\* ------------------------------------------------ claims, pure computations
\* C24: the summary, category-aggregation and diff computations leave the
\* scenarios passed to them unchanged and create or modify no persistent
\* file: across a comparison, which runs calculate_scenario_totals and the
\* later aggregate_by_category on both scenarios, the scenarios and the
\* library categories file are what they were before
C24_ComputationsPure ==
    [][/\ scenario_a' = scenario_a
       /\ scenario_b' = scenario_b
       /\ library' = library]_vars

\* ------------------------------------------------ claims, comparison rows
ByItem == comparison.by_item

CodesOf(items) ==
    {LowerChar(items[i].item_code) : i \in {k \in 1..Len(items) : Truthy(items[k].item_code)}}

\* the item's code is missing or is carried by no item of the other scenario
NoCodeCounterpart(item, others) ==
    ~Truthy(item.item_code) \/ LowerChar(item.item_code) \notin CodesOf(others)

\* C25: compare_scenarios matches by code first and then by name: an item
\* of A and an item of B with the same name, neither with a code
\* counterpart, share a row of by_item, and every item of A and every item
\* of B is named in a row of by_item
C25_CodeThenNameMatching ==
    pc = "compared" =>
        /\ \A i \in 1..Len(scenario_a.items) :
             \E k \in 1..Len(ByItem) : ByItem[k].name_a = scenario_a.items[i].name
        /\ \A j \in 1..Len(scenario_b.items) :
             \E k \in 1..Len(ByItem) : ByItem[k].name_b = scenario_b.items[j].name
        /\ \A i \in 1..Len(scenario_a.items), j \in 1..Len(scenario_b.items) :
             LET item_a == scenario_a.items[i]
                 item_b == scenario_b.items[j]
             IN (/\ Lower(item_a.name) = Lower(item_b.name)
                 /\ NoCodeCounterpart(item_a, scenario_b.items)
                 /\ NoCodeCounterpart(item_b, scenario_a.items))
                => \E k \in 1..Len(ByItem) :
                     ByItem[k].name_a = item_a.name /\ ByItem[k].name_b = item_b.name

\* ------------------------------------------------ claims, grand total
\* C26: in every summary returned by calculate_scenario_summary,
\* grand_total = epc_total + client_capex_total, whatever the
\* client_provided flags, the module percentages and the markup settings
C26_GrandTotalSplits ==
    (pc # "input" /\ ~IsErr(summary_a.grand_total)) =>
        summary_a.grand_total = RAdd(summary_a.epc_total, summary_a.client_capex_total)

\* a client-provided item beside an EPC item, modules and markup charged
C26_Witness ==
    /\ pc # "input"
    /\ RIsPos(summary_a.client_capex_total)
    /\ RIsPos(summary_a.transport_total)
    /\ RIsPos(summary_a.aiu_total)
    /\ RLess(summary_a.client_capex_total, summary_a.epc_total)
    /\ summary_a.grand_total = RAdd(summary_a.epc_total, summary_a.client_capex_total)

\* ------------------------------------------------ claims, category sums
AllEntries(dict) == 1..Len(dict)

\* the key under which aggregate_by_category counts the item
CategoryKey(item) == IF item.category_id # "" THEN item.category_id ELSE "uncategorized"

Categorized(scenario, item) ==
    \E c \in 1..Len(scenario.categories) :
        scenario.categories[c].category_id = CategoryKey(item)

\* C27: for a scenario with unique item_ids the category aggregates conserve
\* the direct cost: base, vat and total summed over all entries of
\* aggregate_by_category, and over the name-merged entries, equal the
\* summary's direct_cost_base, direct_cost_vat and direct_cost_total; an item
\* without a matching category is counted under the fallback label
C27_CategorySumsConserved ==
    pc # "input" =>
        \A cat_totals \in {CatTotalsA} :
          \A by_name \in {group_categories_by_name(cat_totals)} :
            /\ SumField(cat_totals, "base", AllEntries(cat_totals)) = summary_a.direct_cost_base
            /\ SumField(cat_totals, "vat", AllEntries(cat_totals)) = summary_a.direct_cost_vat
            /\ SumField(cat_totals, "total", AllEntries(cat_totals)) = summary_a.direct_cost_total
            /\ SumField(by_name, "base", AllEntries(by_name)) = summary_a.direct_cost_base
            /\ SumField(by_name, "vat", AllEntries(by_name)) = summary_a.direct_cost_vat
            /\ SumField(by_name, "total", AllEntries(by_name)) = summary_a.direct_cost_total
            /\ \A i \in 1..Len(scenario_a.items) :
                 ~Categorized(scenario_a, scenario_a.items[i])
                 => /\ DictHas(cat_totals, CategoryKey(scenario_a.items[i]))
                    /\ DictGet(cat_totals, CategoryKey(scenario_a.items[i])).name
                          = category_name(<< >>, "", 1)
                    /\ DictHas(by_name, category_name(<< >>, "", 1))

\* an item without category_id beside an item of a category of the scenario
C27_Witness ==
    /\ pc # "input"
    /\ Len(scenario_a.items) = 2
    /\ scenario_a.items[1].category_id = ""
    /\ Categorized(scenario_a, scenario_a.items[2])
    /\ DictHas(CatTotalsA, "uncategorized")
    /\ DictGet(CatTotalsA, "uncategorized").total = R(119)
    /\ summary_a.direct_cost_total = R(238)

\* ------------------------------------------------ claims, base ordering
RLeq(x, y) == ~IsErr(x) /\ ~IsErr(y) /\ ~RLess(y, x)

NonNegativeItems(scenario) ==
    \A i \in 1..Len(scenario.items) :
        /\ scenario.items[i].qty >= 0
        /\ scenario.items[i].unit_price >= 0
        /\ scenario.items[i].vat_rate >= 0

\* the markup base of scenario A had its aiu_base_rule been rule
BaseUnder(rule) ==
    calculate_aiu_base_from_total_with_vat([scenario_a EXCEPT !.aiu_base_rule = rule],
        summary_a.total_direct, summary_a.items_totals)

\* C28: with non-negative quantities, prices and VAT rates and the markup
\* enabled, the base of calculate_aiu_base_from_total_with_vat is ordered by
\* policy: 0 <= services/labor only <= direct costs <= direct costs
\* excluding client-provided <= the combined tax-inclusive total
C28_BaseOrderedByPolicy ==
    (/\ pc # "input"
     /\ scenario_a.aiu_enabled
     /\ scenario_a.default_vat_rate >= 0
     /\ NonNegativeItems(scenario_a)) =>
        \A services \in {BaseUnder(ONLY_SERVICES_LABOR)} :
          \A direct \in {BaseUnder(DIRECT_COSTS_EXCL_VAT)} :
            \A excl_client \in {BaseUnder(DIRECT_COSTS_EXCL_CLIENT_PROVIDED)} :
              /\ RLeq(R(0), services)
              /\ RLeq(services, direct)
              /\ RLeq(direct, excl_client)
              /\ RLeq(excl_client, summary_a.total_direct)
              /\ summary_a.aiu_base \in {services, direct, excl_client}

\* an equipment item the markup applies to and an item it does not apply to:
\* the three bases differ
C28_Witness ==
    /\ pc # "input"
    /\ scenario_a.aiu_enabled
    /\ NonNegativeItems(scenario_a)
    /\ RLess(BaseUnder(ONLY_SERVICES_LABOR), BaseUnder(DIRECT_COSTS_EXCL_VAT))
    /\ RLess(BaseUnder(DIRECT_COSTS_EXCL_VAT), BaseUnder(DIRECT_COSTS_EXCL_CLIENT_PROVIDED))
    /\ scenario_a.aiu_base_rule = DIRECT_COSTS_EXCL_VAT
    /\ summary_a.aiu_base = BaseUnder(DIRECT_COSTS_EXCL_VAT)

\* ------------------------------------------------ claims, markup factors
FactorChoices == {DefaultFactors, AIUFactors(0, 0, 0)}

\* the scenario with the aiu_factors of its items replaced
WithFactors(scenario, factors) ==
    [scenario EXCEPT !.items =
        [i \in 1..Len(scenario.items) |-> [scenario.items[i] EXCEPT !.aiu_factors = factors[i]]]]

\* positions of the items the client does not pay
EpcPositions(scenario) == {i \in 1..Len(scenario.items) : ~scenario.items[i].client_pays}

\* the tax-inclusive total of the items at the positions, item by item
RECURSIVE TotalOfItems(_, _, _)
TotalOfItems(scenario, scenario_kwp, positions) ==
    IF positions = {} THEN R(0)
    ELSE LET i == CHOOSE x \in positions : TRUE
         IN RAdd(calculate_item_total(scenario.items[i], scenario_kwp).total,
                 TotalOfItems(scenario, scenario_kwp, positions \ {i}))

\* C29: calculate_scenario_totals does not depend on the items' aiu_factors:
\* replacing them by any other factors leaves the totals identical, the
\* markup being admin_pct, imprev_pct and util_pct of direct_epc_total (the
\* tax-inclusive total of the items the client does not pay) when the
\* markup is enabled and 0 otherwise
C29_TotalsIgnoreItemFactors ==
    pc = "compared" =>
        \A totals \in {calculate_scenario_totals(scenario_a)} :
          \A direct_epc_total \in {TotalOfItems(scenario_a, R(0), EpcPositions(scenario_a))} :
            /\ \A factors \in [1..Len(scenario_a.items) -> FactorChoices] :
                 calculate_scenario_totals(WithFactors(scenario_a, factors)) = totals
            /\ totals.epc_total = comparison.overall.epc_total_a
            /\ totals.direct_epc_total = direct_epc_total
            /\ IF scenario_a.aiu_config.enabled
               THEN /\ totals.aiu_admin = PctOf(scenario_a.aiu_config.admin_pct, direct_epc_total)
                    /\ totals.aiu_imprev = PctOf(scenario_a.aiu_config.imprev_pct, direct_epc_total)
                    /\ totals.aiu_util = PctOf(scenario_a.aiu_config.util_pct, direct_epc_total)
               ELSE /\ totals.aiu_admin = R(0)
                    /\ totals.aiu_imprev = R(0)
                    /\ totals.aiu_util = R(0)

\* markup enabled on an item with scaled factors beside an item the client pays
C29_Witness ==
    /\ pc = "compared"
    /\ scenario_a.aiu_config.enabled
    /\ Len(scenario_a.items) = 2
    /\ scenario_a.items[1].aiu_factors = DefaultFactors
    /\ ~scenario_a.items[1].client_pays
    /\ scenario_a.items[2].aiu_factors = ScaledFactors
    /\ scenario_a.items[2].client_pays
    /\ calculate_scenario_totals(scenario_a).aiu_admin = PctOf(10, R(119))
    /\ comparison.overall.project_total_a
         = calculate_scenario_totals(WithFactors(scenario_a, <<ScaledFactors, DefaultFactors>>)).project_total

\* ------------------------------------------------ claims, cache writes
\* the last position of the log segment of the invocation logged at i
SegmentEnd(i) ==
    IF \E j \in Invocations(calls) : j > i
    THEN (CHOOSE j \in Invocations(calls) :
             j > i /\ \A k \in Invocations(calls) : k > i => j <= k) - 1
    ELSE Len(calls)
CallsIn(i, fn) == {k \in i..SegmentEnd(i) : calls[k].fn = fn}
\* the invocation logged at i returned an error payload
FailedAt(i) == "error" \in DOMAIN calls[i].ret
ErrorPayload(x) == "error" \in DOMAIN x

\* the cache files after the save_cached_analysis calls of log[1..i], each
\* with the timestamp of its invocation
RECURSIVE ReplaySaves(_, _, _)
ReplaySaves(log, i, diff_hash) ==
    IF i = 0 THEN EmptyDict
    ELSE IF log[i].fn = "save_cached_analysis"
         THEN save_cached_analysis(ReplaySaves(log, i - 1, diff_hash), diff_hash, log[i].arg,
                                   Cardinality({k \in Invocations(log) : k <= i}), log[i].ret)
         ELSE ReplaySaves(log, i - 1, diff_hash)

\* C30: analyze_capex_diff writes the cache only after a successful
\* narrative call. A call without API key and a call whose narrative call
\* fails leave every cache entry as it was, and no error payload is ever
\* stored: the files are exactly what the logged saves of generated analyses
\* wrote. The call after a failed one therefore calls the narrative
\* generator again, or returns the analysis an earlier successful call
\* stored, never a cached error.
C30_CacheWrittenOnlyOnSuccess ==
    Analyzed =>
        /\ cache = ReplaySaves(calls, Len(calls), DiffHash)
        /\ \A k \in 1..Len(cache) :
             cache[k].v # Corrupt => ~ErrorPayload(cache[k].v.analysis)
        /\ \A i \in Invocations(calls) :
             /\ FailedAt(i) =>
                  /\ CallsIn(i, "save_cached_analysis") = {}
                  /\ \A k \in CallsIn(i, "call_gemini_analysis") : IsRaised(calls[k].ret)
             /\ \A k \in CallsIn(i, "save_cached_analysis") :
                  /\ ~FailedAt(i)
                  /\ ~ErrorPayload(calls[k].arg)
                  /\ calls[k - 1] = Call("call_gemini_analysis", None, calls[k].arg)
             /\ (i > 1 /\ FailedAt(1)) =>
                  \/ CallsIn(i, "call_gemini_analysis") # {}
                  \/ /\ ~FailedAt(i)
                     /\ \E k \in 1..(i - 1) :
                          calls[k] = Call("save_cached_analysis", calls[i].ret, "ok")
        /\ (Cardinality(Invocations(calls)) = 2 /\ FailedAt(1)) => CalledGemini
        /\ \A api_key \in {k \in ApiKeys : ~Truthy(k)}, force_regenerate \in BOOLEAN :
             \A env \in Environments :
                \A r \in {analyze_capex_diff(scenario_a, scenario_b, summary_a, summary_b,
                                             api_key, force_regenerate, cache,
                                             env.gemini, env.io, 0)} :
                    /\ r.cache = cache
                    /\ r.calls = << >>
                    /\ ErrorPayload(r.analysis)

\* the first click stored an analysis; the forced click after it failed and
\* the stored analysis is still the cache entry
C30_Witness ==
    /\ Analyzed /\ Forced
    /\ Len(calls) = 6
    /\ calls[4] = Call("save_cached_analysis", calls[1].ret, "ok")
    /\ LastInvocation = 5
    /\ IsRaised(Generated)
    /\ ErrorPayload(analysis)
    /\ DictGet(cache, DiffHash) = [hash |-> DiffHash, timestamp |-> 1, analysis |-> calls[1].ret]
    /\ Len(cache) = 1

====
